---------------------------- MODULE Spec2Model ----------------------------
(***************************************************************************)
(* A model of the MPU-6050 driver (src/unnamed/part_000, the library       *)
(* source; src/mpu_6050_library.h, its header; src/mpu_test.ino, the       *)
(* sketch that drives it).                                                 *)
(*                                                                         *)
(* The module holds several state machines over one set of variables:      *)
(*   SpecBus    the register access layer, one step per bus attempt        *)
(*   SpecStore  the EEPROM calibration store, one step per byte attempt    *)
(*   SpecCal    calibrate, one step per offset write / averaging pass      *)
(*   SpecAvg    calculateAverages and the data-ready interrupt, one step   *)
(*              per statement of the sampling loop                         *)
(*   SpecTest   checkMpu, one step per bus call and per axis evaluated     *)
(*   Spec       the initialization sequence and the public operations,     *)
(*              one step per statement that can change mpu_state_global    *)
(* A specification leaves the variables of the other machines unchanged.   *)
(***************************************************************************)
EXTENDS Integers, Sequences, FiniteSets, TLC

(***************************************************************************)
(* Program constants                                                       *)
(***************************************************************************)
MPU_NOT_INITIALIZED == 0
MPU_CORRECT == 1
MPU_I2C_ERROR == 2
MPU_SELF_TEST_FAILED_BASE == 3
MPU_NOT_CALIBRATED == 9
MPU_CALIBRATION_ERROR == 10
I2C_MPU_RETRIES == 5

(***************************************************************************)
(* Bounds of the model                                                     *)
(***************************************************************************)
\* longest register block a modelled read asks for
MaxLen == 2

\* saves started in one behaviour of the store
MaxSaves == 2

\* the largest number_of_iterations of a calculateAverages call
MaxSamples == 3

\* data-ready interrupts counted within one call
MaxSignals == 5

(***************************************************************************)
(* Bytes and bit operations (uint8_t)                                      *)
(***************************************************************************)
Pow2(n) == IF n = 0 THEN 1 ELSE IF n = 1 THEN 2 ELSE IF n = 2 THEN 4
           ELSE IF n = 3 THEN 8 ELSE IF n = 4 THEN 16 ELSE IF n = 5 THEN 32
           ELSE IF n = 6 THEN 64 ELSE IF n = 7 THEN 128 ELSE 256

Bit(x, n) == (x \div Pow2(n)) % 2

\* a & b on 8 bits
BitAnd8(a, b) ==
    LET s(n) == Bit(a, n) * Bit(b, n) * Pow2(n)
    IN  s(0) + s(1) + s(2) + s(3) + s(4) + s(5) + s(6) + s(7)

\* a | b on 8 bits
BitOr8(a, b) ==
    LET o(n) == (IF Bit(a, n) + Bit(b, n) > 0 THEN 1 ELSE 0) * Pow2(n)
    IN  o(0) + o(1) + o(2) + o(3) + o(4) + o(5) + o(6) + o(7)

\* ~a on 8 bits
BitNot8(a) == 255 - a

(***************************************************************************)
(* State                                                                   *)
(***************************************************************************)
VARIABLES
    mpu_state_global,  \* MpuDev::mpu_state_global
    \* ---- the device behind the bus
    dev,               \* register file of the MPU: address -> byte
    \* ---- register access layer
    op,                \* the top-level call in progress ("idle" when none)
    rd_pc,             \* readMpuRegisters: "idle", "loop", "done"
    rd_caller,         \* who called it: "top", "write", "update"
    rd_i,              \* its loop index i
    rd_addr,           \* address_funct
    rd_len,            \* length_funct
    rd_buf,            \* *buffer_funct, index 0 .. MaxLen-1
    rd_ret,            \* its return value
    rd_attempts,       \* bus reads issued by this call
    rd_fullreads,      \* attempts of this call that returned length_funct
    wr_pc,             \* writeMpuRegister: "idle", "write", "readback", "done"
    wr_caller,         \* who called it: "top", "update"
    wr_i,              \* its loop index i
    wr_addr,           \* address_funct
    wr_val,            \* buffer_funct
    wr_check,          \* check_funct
    wr_ret,            \* its return value
    wr_writes,         \* bus writes issued by this call
    wr_matched,        \* a read-back of this call succeeded and equalled wr_val
    up_pc,             \* updateMpuRegister: "idle", "read", "write", "done"
    up_values,         \* values_funct
    up_mask,           \* mask_funct
    up_check,          \* check_funct
    up_current,        \* current_values
    up_read,           \* the byte the initial read returned
    up_read_ok,        \* what the initial read returned (true = success)
    up_ret,            \* its return value
    n_writes,          \* bus writes issued since the top-level call began
    st_at_call,        \* mpu_state_global when the top-level call began
    \* ---- non-volatile calibration store
    eeprom,            \* EEPROM cells of the record: address -> byte
    sv_pc,             \* saveOnEEPROM: "idle", "sig_open", "payload",
                       \*               "sig_close", "done"
    sv_j,              \* payload bytes written and verified so far
    sv_offsets,        \* *offsets_funct of the save
    sv_temp,           \* *temperature_mpu of the save
    sv_count,          \* saves started so far
    sv_last,           \* how the latest save ended: "none", "complete",
                       \* "cut_early" (power lost before the provisional
                       \* signature was in place), "cut" (power lost after
                       \* that and before the complete signature was in place)
    committed,         \* record of the latest save whose complete signature
                       \* was written (<<>> when none)
    ld_done,           \* loadFromEEPROM has run since the latest save
    ld_valid,          \* its return value
    ld_offsets,        \* *offsets_funct of the load
    ld_temp,           \* *temperature_mpu of the load
    \* ---- calibrate
    cal_pc,            \* calibrate: "idle", "br_setlow", "br_avglow",
                       \* "br_sethigh", "br_avghigh", "br_check", "bi_set",
                       \* "bi_avg", "select", "done"
    sensor,            \* how each axis of the device answers (SensorConfigs)
    mpu_offsets,       \* the offset registers of the device
    offsets_funct,     \* *offsets_funct
    low_offsets,       \* low_offsets[6]
    high_offsets,      \* high_offsets[6]
    low_values,        \* low_values[6]
    high_values,       \* high_values[6]
    averages,          \* averages[6]
    count,             \* count
    done,              \* done
    use_max_iterations,\* use_max_iterations
    max_difference,    \* max_difference
    offset_correction, \* MpuDev::offset_correction
    cal_ret,           \* the return value of calibrate
    br_iters,          \* passes of the first while loop completed
    bi_iters,          \* passes of the second while loop completed
    set_failed,        \* a write of setOffsets raised the I2C error
    avg_failed,        \* a read of calculateAverages raised the I2C error
    sets_after,        \* setOffsets calls begun after avg_failed became true
    avgs_after,        \* calculateAverages calls begun after that
    int_wraps,         \* the build computes int sums in 16 bits, so that an
                       \* overflowing one wraps (FALSE: int is wider)
    samples,           \* number_of_iterations of the latest calculateAverages
    narrowed,          \* a pass of the second loop has ended with every
                       \* range at most CALIBRATION_INITIAL_ERROR wide
    \* ---- initialization sequence and public operations
    pc,                \* the statement the sketch is at ("idle" between calls)
    called_by,         \* who called checkCalibration / performCalibration:
                       \* "top", "init1", "init2"
    last_op,           \* the public operation called last
    op_ret,            \* what it returned
    cur_temp,          \* mpu_current_temperature
    new_offsets,       \* mpu_offsets[6] of performCalibration
    self_test_passed,  \* checkMpu returned true in an initialize_1 since
                       \* power-on
    cal_resolved,      \* since power-on a valid stored record was applied
                       \* to the device or a calibrate call returned true
    cc_wrote,          \* the latest checkCalibration has called setOffsets
    seq_entry,         \* mpu_state_global when initialize_1 was last called
    seq_clean,         \* since that call only initialize_1 and then
                       \* initialize_2 ran and every bus call succeeded
    \* ---- calculateAverages and the data-ready interrupt
    mpu_data_ready,    \* mpu_data_ready
    overflow,          \* overflow
    time_buffer,       \* time_buffer
    signals,           \* data-ready interrupts since the call began, the
                       \* one still pending at the call included
    av_pc,             \* calculateAverages: "idle", "test", "wait", "read",
                       \* "reset", "done"
    av_n,              \* number_of_iterations
    av_index,          \* index of the sampling loop
    av_ids,            \* the samples read, each named by the number of the
                       \* interrupt that announced it
    av_sum,            \* sum_average (of the sample numbers)
    \* ---- checkMpu
    st_pc,             \* checkMpu: "idle", "config", "read", "accel", "gyro",
                       \* "done"
    test_regs,         \* the four self-test registers of the device
                       \* (0x0D .. 0x10)
    stack_byte,        \* the byte that lies behind values_raw[3] in memory
    values_raw,        \* values_raw[3]
    st_i,              \* i of the loop in progress
    st_self_test,      \* self_test
    st_codes,          \* self_test of each axis evaluated so far, in order
    st_read_len,       \* length of the block read (0 before the read)
    st_configured,     \* changeFullScale had been called when the block was
                       \* read
    st_ret,            \* the return value of checkMpu
    \* ---- simplifiedKF.  A double is held as the integer nearest to
    \* Scale times its value; an angle is held in degrees, a rate in
    \* degrees per second; index 1 is the x axis, index 2 the y axis
    accel_1g_value,    \* accel_1g_value of the build
    gyro_1dps_value,   \* gyro_1dps_value of the build, in tenths
    state,             \* state[2]
    state_covariance,  \* state_covariance[2]
    rotated_ang_speed_prev, \* rotated_ang_speed_prev[2]
    prev_time,         \* prev_time, in ms
    kf_pc,             \* simplifiedKF: "idle", "test", "predict", "accel",
                       \* "innovation", "update", "done"
    kf_calls,          \* calls of simplifiedKF made so far
    kf_entry,          \* FilterState and mpu_state_global at the call
    current_time,      \* current_time, in ms
    raw_values,        \* raw_values[6] of getRefinedValues
    measurements_funct, \* measurements_funct[6]
    angular_speed_1,   \* angular_speed_1[2]
    delta_time,        \* delta_time, in seconds
    state_accel,       \* state_accel[2]
    temp_funct,        \* temp_funct[2]
    kf_ret,            \* the angles read through the pointer returned
    \* ---- getOffsetCorrection
    goc_pc,            \* getOffsetCorrection: "start", "ready", "done"
    low_ram,           \* the six int16_t at the address
                       \* CALIBRATION_CORRECTION_AVERAGES
    goc_n,             \* number_of_iterations of the calculateAverages
                       \* call of getOffsetCorrection (0 before it)
    \* ---- initializeMeasurements and loop() of the sketch
    im_calls,          \* calls of initializeMeasurements that have returned
    lp_pc,             \* loop(): "init", "test", "check1", "time", "gyro",
                       \* "accel", "kf", "kfret", "reset", "ovtest",
                       \* "ovclear", "halt"
    time_buffer2,      \* time_buffer2
    lp_stamp,          \* the number of the interrupt that wrote the
                       \* time_buffer copied to time_buffer2
    lp_read,           \* the number of the interrupt that announced the
                       \* sample simplifiedKF read last
    lp_seen            \* what if (overflow) read last

busVars == <<dev, op, rd_pc, rd_caller, rd_i, rd_addr, rd_len, rd_buf, rd_ret,
             rd_attempts, rd_fullreads, wr_pc, wr_caller, wr_i, wr_addr,
             wr_val, wr_check, wr_ret, wr_writes, wr_matched, up_pc,
             up_values, up_mask, up_check, up_current, up_read, up_read_ok,
             up_ret, n_writes, st_at_call>>

rdVars == <<rd_pc, rd_caller, rd_i, rd_addr, rd_len, rd_buf, rd_ret,
            rd_attempts, rd_fullreads>>
wrVars == <<wr_pc, wr_caller, wr_i, wr_addr, wr_val, wr_check, wr_ret,
            wr_writes, wr_matched>>
upVars == <<up_pc, up_values, up_mask, up_check, up_current, up_read,
            up_read_ok, up_ret>>

storeVars == <<eeprom, sv_pc, sv_j, sv_offsets, sv_temp, sv_count, sv_last,
               committed, ld_done, ld_valid, ld_offsets, ld_temp>>

calVars == <<cal_pc, sensor, mpu_offsets, offsets_funct, low_offsets,
             high_offsets, low_values, high_values, averages, count, done,
             use_max_iterations, max_difference, offset_correction, cal_ret,
             br_iters, bi_iters, set_failed, avg_failed,
             sets_after, avgs_after, int_wraps, samples, narrowed>>

initVars == <<pc, called_by, last_op, op_ret, cur_temp, new_offsets,
              seq_entry, seq_clean, self_test_passed, cal_resolved,
              cc_wrote>>

avgVars == <<mpu_data_ready, overflow, time_buffer, signals, av_pc, av_n,
             av_index, av_ids, av_sum>>

testVars == <<st_pc, test_regs, stack_byte, values_raw, st_i, st_self_test,
              st_codes, st_read_len, st_configured, st_ret>>

filterState == <<state, state_covariance, rotated_ang_speed_prev, prev_time>>

kfVars == <<accel_1g_value, gyro_1dps_value, filterState, kf_pc, kf_calls,
            kf_entry, current_time, raw_values, measurements_funct,
            angular_speed_1, delta_time, state_accel, temp_funct, kf_ret>>

gocVars == <<goc_pc, low_ram, goc_n>>

loopVars == <<im_calls, lp_pc, time_buffer2, lp_stamp, lp_read, lp_seen>>

vars == <<mpu_state_global, busVars, storeVars, calVars, initVars, avgVars,
          testVars, kfVars, gocVars,
          loopVars>>

\* what the register access layer leaves alone
notBus == <<storeVars, calVars, initVars, avgVars, testVars, kfVars,
           gocVars, loopVars>>

\* what the store leaves alone
notStore == <<mpu_state_global, busVars, calVars, initVars, avgVars,
              testVars, kfVars, gocVars,
              loopVars>>

\* what calibrate leaves alone
notCal == <<busVars, storeVars, initVars, avgVars, testVars, kfVars,
           gocVars, loopVars>>

\* what the initialization sequence leaves alone: it acts on
\* mpu_state_global, on the record in the EEPROM and on the offset registers
notInit == <<busVars, sv_pc, sv_j, sv_offsets, sv_temp, sv_count, sv_last,
             committed, ld_done, ld_valid, ld_offsets, ld_temp, cal_pc,
             sensor, offsets_funct, low_offsets, high_offsets, low_values,
             high_values, averages, count, done, use_max_iterations,
             max_difference, offset_correction, cal_ret, br_iters, bi_iters,
             set_failed, avg_failed, sets_after, avgs_after, int_wraps,
             samples, narrowed, avgVars, testVars, kfVars, gocVars,
             loopVars>>

\* what calculateAverages and the interrupt leave alone
notAvg == <<busVars, storeVars, calVars, initVars, testVars, kfVars,
           gocVars, loopVars>>

\* what checkMpu leaves alone
notTest == <<busVars, storeVars, calVars, initVars, avgVars, kfVars,
            gocVars, loopVars>>

\* what simplifiedKF leaves alone: it acts on mpu_state_global and reads
\* offset_correction, which calibrate sets
notKf == <<busVars, storeVars, cal_pc, sensor, mpu_offsets, offsets_funct,
           low_offsets, high_offsets, low_values, high_values, averages,
           count, done, use_max_iterations, max_difference, cal_ret,
           br_iters, bi_iters, set_failed, avg_failed, sets_after,
           avgs_after, int_wraps, samples, narrowed, initVars, avgVars,
           testVars, gocVars,
           loopVars>>

\* what getOffsetCorrection leaves alone: it acts on mpu_state_global and
\* offset_correction and reads the device
notGoc == <<busVars, storeVars, cal_pc, offsets_funct, low_offsets,
            high_offsets, low_values, high_values, averages, count, done,
            use_max_iterations, max_difference, cal_ret, br_iters,
            bi_iters, set_failed, avg_failed, sets_after, avgs_after,
            int_wraps, samples, narrowed, initVars, avgVars, testVars,
            kfVars, loopVars>>

(***************************************************************************)
(* Register access layer                                                   *)
(***************************************************************************)
\* register addresses of the modelled device
RegAddrs == 0 .. (MaxLen - 1)

\* the register the modelled writes and updates address
WriteAddrs == {0}

\* byte values the inputs are drawn from
SampleBytes == {15, 104, 248}

\* what a caller's buffer holds before the read fills it
StaleByte == 170

\* what a register holds after a write the device took wrongly
GarbledByte == 255

StaleBuffer == [k \in 0 .. (MaxLen - 1) |-> StaleByte]

\* no call in progress
BusLocalsInit ==
    /\ op = "idle"
    /\ rd_pc = "idle" /\ rd_caller = "top" /\ rd_i = 0 /\ rd_addr = 0
    /\ rd_len = 1 /\ rd_buf = StaleBuffer /\ rd_ret = FALSE
    /\ rd_attempts = 0 /\ rd_fullreads = 0
    /\ wr_pc = "idle" /\ wr_caller = "top" /\ wr_i = 0 /\ wr_addr = 0
    /\ wr_val = 0 /\ wr_check = TRUE /\ wr_ret = FALSE /\ wr_writes = 0
    /\ wr_matched = FALSE
    /\ up_pc = "idle" /\ up_values = 0 /\ up_mask = 0 /\ up_check = TRUE
    /\ up_current = 0 /\ up_read = 0 /\ up_read_ok = FALSE /\ up_ret = FALSE
    /\ n_writes = 0 /\ st_at_call = MPU_NOT_INITIALIZED

BusInit ==
    /\ dev = [a \in RegAddrs |-> 104]
    /\ BusLocalsInit

\* ---- readMpuRegisters ---------------------------------------------------

\* the state of a read that has just been entered
ReadEntry(caller, addr, len) ==
    /\ rd_pc' = "loop"
    /\ rd_caller' = caller
    /\ rd_i' = 0
    /\ rd_addr' = addr
    /\ rd_len' = len
    /\ rd_buf' = StaleBuffer
    /\ rd_ret' = FALSE
    /\ rd_attempts' = 0
    /\ rd_fullreads' = 0

\* I2Cdev::readBytes: n bytes arrive and are stored; the call returns n, or -1
\* when the timeout ran out before all of them arrived
ReadBytesStore(buf, addr, n) ==
    [k \in 0 .. (MaxLen - 1) |-> IF k < n THEN dev[addr + k] ELSE buf[k]]

ReadBytesReturn(n, timeout) == IF timeout THEN -1 ELSE n

\* for (i = 0; i < I2C_MPU_RETRIES; i++)
ReadLoopCond(i) == i < I2C_MPU_RETRIES

\* *(buffer_funct + i) = 0 for i < length_funct
ZeroFillShort(buf, len) ==
    [k \in 0 .. (MaxLen - 1) |-> IF k < len - 1 THEN 0 ELSE buf[k]]

ZeroFill(buf, len) ==
    [k \in 0 .. (MaxLen - 1) |-> IF k < len THEN 0 ELSE buf[k]]

\* one pass of the retry loop: one bus read
ReadAttempt ==
    /\ rd_pc = "loop"
    /\ ReadLoopCond(rd_i)
    /\ \E n \in 0 .. rd_len, timeout \in BOOLEAN :
          /\ timeout => n < rd_len
          /\ rd_buf' = ReadBytesStore(rd_buf, rd_addr, n)
          /\ rd_attempts' = rd_attempts + 1
          /\ IF ReadBytesReturn(n, timeout) = rd_len
                THEN /\ rd_ret' = TRUE
                     /\ rd_pc' = "done"
                     /\ rd_i' = rd_i
                     /\ rd_fullreads' = rd_fullreads + 1
                ELSE /\ rd_ret' = FALSE
                     /\ rd_pc' = "loop"
                     /\ rd_i' = rd_i + 1
                     /\ rd_fullreads' = rd_fullreads
    /\ UNCHANGED <<mpu_state_global, dev, op, rd_caller, rd_addr, rd_len,
                   wrVars, upVars, n_writes, st_at_call>>
    /\ UNCHANGED notBus

\* the loop ran out: the communication error
ReadExhausted ==
    /\ rd_pc = "loop"
    /\ ~ReadLoopCond(rd_i)
    /\ mpu_state_global' = MPU_I2C_ERROR
    /\ rd_buf' = ZeroFill(rd_buf, rd_len)
    /\ rd_ret' = FALSE
    /\ rd_pc' = "done"
    /\ UNCHANGED <<dev, op, rd_caller, rd_i, rd_addr, rd_len, rd_attempts,
                   rd_fullreads, wrVars, upVars, n_writes, st_at_call>>
    /\ UNCHANGED notBus

\* ---- writeMpuRegister ----------------------------------------------------

WriteEntry(caller, addr, val, check) ==
    /\ wr_pc' = "write"
    /\ wr_caller' = caller
    /\ wr_i' = 0
    /\ wr_addr' = addr
    /\ wr_val' = val
    /\ wr_check' = check
    /\ wr_ret' = FALSE
    /\ wr_writes' = 0
    /\ wr_matched' = FALSE

\* for (i = 0; i <= I2C_MPU_RETRIES; i++)
WriteLoopCond(i) == i <= I2C_MPU_RETRIES

\* if (buffer_funct2 == buffer_funct) return true
ReadBackMatchesLowBits(readback, val) == readback % 16 = val % 16

ReadBackMatches(readback, val) == readback = val

\* I2Cdev::writeBytes: the device takes the byte, takes a garbled byte, or
\* does not acknowledge (the call then returns false)
WriteAttempt ==
    /\ wr_pc = "write"
    /\ WriteLoopCond(wr_i)
    /\ wr_writes' = wr_writes + 1
    /\ n_writes' = n_writes + 1
    /\ \/ \* not acknowledged: continue
          /\ dev' = dev
          /\ wr_i' = wr_i + 1
          /\ UNCHANGED <<rdVars, wr_pc, wr_ret>>
       \/ \* acknowledged
          /\ \E stored \in {wr_val, GarbledByte} :
                dev' = [dev EXCEPT ![wr_addr] = stored]
          /\ wr_i' = wr_i
          /\ IF wr_check
                THEN /\ ReadEntry("write", wr_addr, 1)
                     /\ wr_pc' = "readback"
                     /\ wr_ret' = wr_ret
                ELSE /\ wr_ret' = TRUE
                     /\ wr_pc' = "done"
                     /\ UNCHANGED rdVars
    /\ UNCHANGED <<mpu_state_global, op, wr_caller, wr_addr, wr_val, wr_check,
                   wr_matched, upVars, st_at_call>>
    /\ UNCHANGED notBus

\* the read-back returned
WriteReadback ==
    /\ wr_pc = "readback"
    /\ rd_pc = "done"
    /\ rd_caller = "write"
    /\ rd_pc' = "idle"
    /\ IF rd_ret /\ ReadBackMatches(rd_buf[0], wr_val)
          THEN /\ wr_ret' = TRUE
               /\ wr_pc' = "done"
               /\ wr_i' = wr_i
               /\ wr_matched' = (rd_fullreads > 0 /\ rd_buf[0] = wr_val)
          ELSE /\ wr_ret' = FALSE
               /\ wr_pc' = "write"
               /\ wr_i' = wr_i + 1
               /\ wr_matched' = wr_matched
    /\ UNCHANGED <<mpu_state_global, dev, op, rd_caller, rd_i, rd_addr,
                   rd_len, rd_buf, rd_ret, rd_attempts, rd_fullreads,
                   wr_caller, wr_addr, wr_val, wr_check, wr_writes, upVars,
                   n_writes, st_at_call>>
    /\ UNCHANGED notBus

\* the loop ran out: the communication error
WriteExhausted ==
    /\ wr_pc = "write"
    /\ ~WriteLoopCond(wr_i)
    /\ mpu_state_global' = MPU_I2C_ERROR
    /\ wr_ret' = FALSE
    /\ wr_pc' = "done"
    /\ UNCHANGED <<dev, op, rdVars, wr_caller, wr_i, wr_addr, wr_val,
                   wr_check, wr_writes, wr_matched, upVars, n_writes,
                   st_at_call>>
    /\ UNCHANGED notBus

\* ---- updateMpuRegister ---------------------------------------------------

\* the merge without the mask on the requested value
UpdateValueUnmasked(values, mask, current) ==
    BitOr8(values, BitAnd8(current, BitNot8(mask)))

\* (values_funct & mask_funct) | (current_values & ~mask_funct)
UpdateValue(values, mask, current) ==
    BitOr8(BitAnd8(values, mask), BitAnd8(current, BitNot8(mask)))

\* if (!readMpuRegister(address_funct, &current_values)) return false
UpdateReadFailedIgnored(ret) == FALSE

UpdateReadFailed(ret) == ~ret

\* the initial read returned
UpdateAfterRead ==
    /\ up_pc = "read"
    /\ rd_pc = "done"
    /\ rd_caller = "update"
    /\ up_read' = rd_buf[0]
    /\ up_read_ok' = rd_ret
    /\ IF UpdateReadFailed(rd_ret)
          THEN /\ up_ret' = FALSE
               /\ up_pc' = "done"
               /\ up_current' = rd_buf[0]
               /\ rd_pc' = "idle"
               /\ UNCHANGED wrVars
          ELSE /\ up_current' = UpdateValue(up_values, up_mask, rd_buf[0])
               /\ up_ret' = up_ret
               /\ up_pc' = "write"
               /\ rd_pc' = "idle"
               /\ WriteEntry("update", rd_addr,
                             UpdateValue(up_values, up_mask, rd_buf[0]),
                             up_check)
    /\ UNCHANGED <<mpu_state_global, dev, op, rd_caller, rd_i, rd_addr,
                   rd_len, rd_buf, rd_ret, rd_attempts, rd_fullreads,
                   up_values, up_mask, up_check, n_writes, st_at_call>>
    /\ UNCHANGED notBus

\* the write returned
UpdateAfterWrite ==
    /\ up_pc = "write"
    /\ wr_pc = "done"
    /\ wr_caller = "update"
    /\ up_ret' = wr_ret
    /\ up_pc' = "done"
    /\ wr_pc' = "idle"
    /\ UNCHANGED <<mpu_state_global, dev, op, rdVars, wr_caller, wr_i,
                   wr_addr, wr_val, wr_check, wr_ret, wr_writes, wr_matched,
                   up_values, up_mask, up_check, up_current, up_read,
                   up_read_ok, n_writes, st_at_call>>
    /\ UNCHANGED notBus

\* ---- the callers of the layer --------------------------------------------

CallRead ==
    /\ op = "idle"
    /\ \E addr \in RegAddrs, len \in 1 .. MaxLen :
          /\ addr + len <= MaxLen
          /\ ReadEntry("top", addr, len)
    /\ op' = "read"
    /\ n_writes' = 0
    /\ st_at_call' = mpu_state_global
    /\ UNCHANGED <<mpu_state_global, dev, wrVars, upVars>>
    /\ UNCHANGED notBus

CallWrite ==
    /\ op = "idle"
    /\ \E addr \in WriteAddrs, val \in SampleBytes, check \in BOOLEAN :
          WriteEntry("top", addr, val, check)
    /\ op' = "write"
    /\ n_writes' = 0
    /\ st_at_call' = mpu_state_global
    /\ UNCHANGED <<mpu_state_global, dev, rdVars, upVars>>
    /\ UNCHANGED notBus

CallUpdate ==
    /\ op = "idle"
    /\ \E addr \in WriteAddrs, values \in SampleBytes, mask \in SampleBytes,
          check \in BOOLEAN :
          /\ ReadEntry("update", addr, 1)
          /\ up_values' = values
          /\ up_mask' = mask
          /\ up_check' = check
    /\ up_pc' = "read"
    /\ up_current' = 0
    /\ up_read' = 0
    /\ up_read_ok' = FALSE
    /\ up_ret' = FALSE
    /\ op' = "update"
    /\ n_writes' = 0
    /\ st_at_call' = mpu_state_global
    /\ UNCHANGED <<mpu_state_global, dev, wrVars>>
    /\ UNCHANGED notBus

\* the top-level call returns to its caller; its locals die with it
Return ==
    /\ \/ op = "read" /\ rd_pc = "done" /\ rd_caller = "top"
       \/ op = "write" /\ wr_pc = "done" /\ wr_caller = "top"
       \/ op = "update" /\ up_pc = "done"
    /\ op' = "idle"
    /\ rd_pc' = "idle" /\ rd_caller' = "top" /\ rd_i' = 0 /\ rd_addr' = 0
    /\ rd_len' = 1 /\ rd_buf' = StaleBuffer /\ rd_ret' = FALSE
    /\ rd_attempts' = 0 /\ rd_fullreads' = 0
    /\ wr_pc' = "idle" /\ wr_caller' = "top" /\ wr_i' = 0 /\ wr_addr' = 0
    /\ wr_val' = 0 /\ wr_check' = TRUE /\ wr_ret' = FALSE /\ wr_writes' = 0
    /\ wr_matched' = FALSE
    /\ up_pc' = "idle" /\ up_values' = 0 /\ up_mask' = 0 /\ up_check' = TRUE
    /\ up_current' = 0 /\ up_read' = 0 /\ up_read_ok' = FALSE
    /\ up_ret' = FALSE
    /\ n_writes' = 0 /\ st_at_call' = MPU_NOT_INITIALIZED
    /\ UNCHANGED <<mpu_state_global, dev>>
    /\ UNCHANGED notBus

\* a fresh initialization sequence begins on a device whose state was left
\* by an earlier attempt (mpu_test.ino restarts by reset: the global MpuDev
\* object is zero-initialized again)
BusReset ==
    /\ op = "idle"
    /\ mpu_state_global # MPU_NOT_INITIALIZED
    /\ mpu_state_global' = MPU_NOT_INITIALIZED
    /\ UNCHANGED busVars
    /\ UNCHANGED notBus

(***************************************************************************)
(* Non-volatile calibration store                                          *)
(***************************************************************************)
MPU_EEPROM_OFFSET_ADDRESS == 15

\* the signature byte while a save is in progress, and once it is complete
SignatureWriting == 208

SignatureComplete == 221

\* an EEPROM cell that was never programmed
ErasedByte == 255

\* the 16 payload bytes follow the signature byte
PayloadLength == 6 * 2 + 4

EAddrs == MPU_EEPROM_OFFSET_ADDRESS ..
          (MPU_EEPROM_OFFSET_ADDRESS + PayloadLength)

\* *(int16_t *) buffer_array = v: the two bytes of an int16_t as the AVR
\* (little-endian) lays them out; buffer_array[0] is the low byte
Int16Byte(v, k) ==
    LET u == v % 65536
    IN  IF k = 0 THEN u % 256 ELSE u \div 256

\* *(int16_t *) buffer_array read back, bytes taken in the documented order
\* (high byte first)
Int16FromBytesHighFirst(b0, b1) ==
    LET u == b1 + 256 * b0
    IN  IF u >= 32768 THEN u - 65536 ELSE u

\* *(int16_t *) buffer_array read back
Int16FromBytes(b0, b1) ==
    LET u == b0 + 256 * b1
    IN  IF u >= 32768 THEN u - 65536 ELSE u

\* A float is modelled by the integer 34000 * (degrees Celsius): getTemperature
\* returns raw / 340 + 36.53, that is (100 * raw + 1242020) / 34000.  Its four
\* bytes are modelled by the bytes of that integer as a 32-bit two's
\* complement number, low byte first: *(float *) buffer_array reinterprets
\* the bytes and converts nothing.
FloatByte(t, k) ==
    LET lo == t % 65536
        hi == (t \div 65536) % 65536
    IN  IF k = 0 THEN lo % 256
        ELSE IF k = 1 THEN lo \div 256
        ELSE IF k = 2 THEN hi % 256
        ELSE hi \div 256

FloatFromBytes(b0, b1, b2, b3) ==
    LET hi == b2 + 256 * b3
    IN  (IF hi >= 32768 THEN hi - 65536 ELSE hi) * 65536 + b0 + 256 * b1

\* byte j (0 .. 15) of the payload saveOnEEPROM writes: the loop over i < 7
\* and j < data_length
PayloadByte(offsets, temp, j) ==
    IF j < 12 THEN Int16Byte(offsets[(j \div 2) + 1], j % 2)
    ELSE FloatByte(temp, j - 12)

\* offset and temperature samples the saves are drawn from
OffsetSamples == { <<0, 0, 0, 0, 0, 0>>,
                   <<-1, 256, -32768, 32767, 1, -2>> }

TempSamples == {1242020, -2034780}

\* what the caller's output variables hold before a load (uninitialized
\* locals of checkCalibration)
StaleOffsets == <<7, 7, 7, 7, 7, 7>>

StaleTemp == 7

\* what a cell can hold after a write the medium did not accept: the old
\* byte, the erased byte or a partially programmed byte.  The medium is
\* taken never to produce the complete signature by accident.
RejectedBytes(old, val) == ({old, ErasedByte, 223} \ {val, SignatureComplete})

StoreLocalsInit ==
    /\ sv_pc = "idle" /\ sv_j = 0
    /\ sv_offsets = StaleOffsets /\ sv_temp = StaleTemp

StoreInit ==
    /\ eeprom = [a \in EAddrs |-> ErasedByte]
    /\ StoreLocalsInit
    /\ sv_count = 0 /\ sv_last = "none" /\ committed = <<>>
    /\ ld_done = FALSE /\ ld_valid = FALSE
    /\ ld_offsets = StaleOffsets /\ ld_temp = StaleTemp

\* EEPROM.update(address, value) followed by EEPROM.read(address) == value:
\* update writes only a cell that differs; the write is accepted or not
EepromAfterUpdate(a, val) ==
    IF eeprom[a] = val THEN {eeprom}
    ELSE {[eeprom EXCEPT ![a] = b] :
              b \in {val} \cup RejectedBytes(eeprom[a], val)}

\* if (EEPROM.read(address) == value) break
ReadBackEqualIgnored(cell, val) == TRUE

ReadBackNever(cell, val) == FALSE

ReadBackEqual(cell, val) == cell = val

CallSave ==
    /\ sv_pc = "idle"
    /\ sv_count < MaxSaves
    /\ \E offsets \in OffsetSamples, temp \in TempSamples :
          /\ sv_offsets' = offsets
          /\ sv_temp' = temp
    /\ sv_pc' = "sig_open"
    /\ sv_j' = 0
    /\ sv_count' = sv_count + 1
    /\ sv_last' = "none"
    /\ ld_done' = FALSE
    /\ UNCHANGED <<eeprom, committed, ld_valid, ld_offsets, ld_temp>>
    /\ UNCHANGED notStore

\* one pass of the first while (true): the provisional signature
SaveSigOpen ==
    /\ sv_pc = "sig_open"
    /\ \E e \in EepromAfterUpdate(MPU_EEPROM_OFFSET_ADDRESS, SignatureWriting) :
          /\ eeprom' = e
          /\ sv_pc' = IF ReadBackEqual(e[MPU_EEPROM_OFFSET_ADDRESS],
                                       SignatureWriting)
                         THEN "payload" ELSE "sig_open"
    /\ UNCHANGED <<sv_j, sv_offsets, sv_temp, sv_count, sv_last, committed,
                   ld_done, ld_valid, ld_offsets, ld_temp>>
    /\ UNCHANGED notStore

\* one pass of the inner while (true): one payload byte
SavePayloadByte ==
    /\ sv_pc = "payload"
    /\ LET a == MPU_EEPROM_OFFSET_ADDRESS + 1 + sv_j
           val == PayloadByte(sv_offsets, sv_temp, sv_j)
       IN  \E e \in EepromAfterUpdate(a, val) :
              /\ eeprom' = e
              /\ IF ReadBackEqual(e[a], val)
                    THEN /\ sv_j' = sv_j + 1
                         /\ sv_pc' = IF sv_j + 1 = PayloadLength
                                        THEN "sig_close" ELSE "payload"
                    ELSE /\ sv_j' = sv_j
                         /\ sv_pc' = "payload"
    /\ UNCHANGED <<sv_offsets, sv_temp, sv_count, sv_last, committed,
                   ld_done, ld_valid, ld_offsets, ld_temp>>
    /\ UNCHANGED notStore

\* one pass of the last while (true): the complete signature
SaveSigClose ==
    /\ sv_pc = "sig_close"
    /\ \E e \in EepromAfterUpdate(MPU_EEPROM_OFFSET_ADDRESS,
                                   SignatureComplete) :
          /\ eeprom' = e
          /\ IF ReadBackEqual(e[MPU_EEPROM_OFFSET_ADDRESS], SignatureComplete)
                THEN /\ sv_pc' = "done"
                     /\ sv_last' = "complete"
                ELSE /\ sv_pc' = "sig_close"
                     /\ sv_last' = sv_last
          /\ committed' = IF e[MPU_EEPROM_OFFSET_ADDRESS] = SignatureComplete
                             THEN <<sv_offsets, sv_temp>> ELSE committed
    /\ UNCHANGED <<sv_j, sv_offsets, sv_temp, sv_count, ld_done, ld_valid,
                   ld_offsets, ld_temp>>
    /\ UNCHANGED notStore

\* saveOnEEPROM returns
SaveReturn ==
    /\ sv_pc = "done"
    /\ sv_pc' = "idle"
    /\ sv_j' = 0
    /\ UNCHANGED <<eeprom, sv_offsets, sv_temp, sv_count, sv_last, committed,
                   ld_done, ld_valid, ld_offsets, ld_temp>>
    /\ UNCHANGED notStore

\* the supply fails while saveOnEEPROM runs; the program starts again
PowerLoss ==
    /\ sv_pc \in {"sig_open", "payload", "sig_close"}
    /\ sv_last' = IF sv_pc = "sig_open" THEN "cut_early" ELSE "cut"
    /\ sv_pc' = "idle"
    /\ sv_j' = 0
    /\ ld_done' = FALSE
    /\ ld_valid' = FALSE
    /\ ld_offsets' = StaleOffsets
    /\ ld_temp' = StaleTemp
    /\ UNCHANGED <<eeprom, sv_offsets, sv_temp, sv_count, committed>>
    /\ UNCHANGED notStore

\* if (EEPROM.read(address) != 0xDD) return false
SignatureAcceptedHighNibble(sig) == sig \div 16 = SignatureComplete \div 16

SignatureAccepted(sig) == sig = SignatureComplete

\* the offsets and the temperature loadFromEEPROM deserializes
LoadedOffsets(e) ==
    [i \in 1 .. 6 |->
        Int16FromBytes(e[MPU_EEPROM_OFFSET_ADDRESS + 1 + 2 * (i - 1)],
                       e[MPU_EEPROM_OFFSET_ADDRESS + 2 + 2 * (i - 1)])]

LoadedTemp(e) ==
    FloatFromBytes(e[MPU_EEPROM_OFFSET_ADDRESS + 13],
                   e[MPU_EEPROM_OFFSET_ADDRESS + 14],
                   e[MPU_EEPROM_OFFSET_ADDRESS + 15],
                   e[MPU_EEPROM_OFFSET_ADDRESS + 16])

\* loadFromEEPROM(temperature_mpu, offsets_funct)
Load ==
    /\ sv_pc = "idle"
    /\ ld_done' = TRUE
    /\ IF SignatureAccepted(eeprom[MPU_EEPROM_OFFSET_ADDRESS])
          THEN /\ ld_valid' = TRUE
               /\ ld_offsets' = LoadedOffsets(eeprom)
               /\ ld_temp' = LoadedTemp(eeprom)
          ELSE /\ ld_valid' = FALSE
               /\ UNCHANGED <<ld_offsets, ld_temp>>
    /\ UNCHANGED <<eeprom, sv_pc, sv_j, sv_offsets, sv_temp, sv_count,
                   sv_last, committed>>
    /\ UNCHANGED notStore

(***************************************************************************)
(* Calibration                                                             *)
(***************************************************************************)
CALIBRATION_AVERAGES == 10000

CALIBRATION_INITIAL_AVERAGES == 1000

CALIBRATION_CORRECTION_AVERAGES == 1000

CALIBRATION_MAX_ITERATIONS == 100

CALIBRATION_INITIAL_ERROR == 5

CALIBRATION_MIN_ERROR == 1

CALIBRATION_OFFSET_ADJUSTMENT == 1000

Z_ACCEL_TARGET == 16384

Axes == 1 .. 6

\* int16_t targets[] = {X_ACCEL_TARGET, ..., Z_GYRO_TARGET}
targets == <<0, 0, Z_ACCEL_TARGET, 0, 0, 0>>

\* the value an int16_t holds after an arithmetic result is stored in it
\* (the 16-bit AVR arithmetic wraps)
Wrap16(x) ==
    LET u == x % 65536
    IN  IF u >= 32768 THEN u - 65536 ELSE u

\* abs(x)
Abs(x) == IF x < 0 THEN -x ELSE x

\* the C division of a by a positive b (it truncates toward zero)
CDiv(a, b) == IF a >= 0 THEN a \div b ELSE -((-a) \div b)

\* the value a 16-bit measurement register holds for a physical quantity x
\* (the device saturates at the ends of its range)
Clamp16(x) == IF x > 32767 THEN 32767 ELSE IF x < -32768 THEN -32768 ELSE x

\* the slope of a linear axis: the change of the average for one step of
\* the offset register
Slope(kind) == IF kind = "steep" THEN 4 ELSE 1

\* How one axis of the device answers: the value calculateAverages returns
\* for it (the mean of the samples less the target) as a function of the
\* offset register of the axis.  "pos" and "neg" axes answer with a
\* positive or negative value whatever the offset (a "pos" axis answers 3
\* at the offset 0 and 10 elsewhere); the other axes are linear and cross
\* zero at root.
AxisAverage(kind, root, offset) ==
    IF kind = "pos" THEN (IF offset = 0 THEN 3 ELSE 10)
    ELSE IF kind = "neg" THEN -5
    ELSE Clamp16(Slope(kind) * (offset - root))

Roots == <<1500, -700, 40, 0, -2500, 333>>

\* zero crossings near the ends of the range the offsets can reach in
\* steps of CALIBRATION_OFFSET_ADJUSTMENT
FarRoots == <<31999, -31999, 1000, -1000, 20500, -20500>>

\* the zero crossing of axis i of the given kind
RootOf(kind, i) == IF kind \in {"far", "steep"} THEN FarRoots[i] ELSE Roots[i]

LinearKinds == {"lin", "far", "steep"}

AllPositive == [i \in Axes |-> "pos"]

AllNegative == [i \in Axes |-> "neg"]

AllLinear == [i \in Axes |-> "lin"]

EdgeLinear == [i \in Axes |-> IF i \in {3, 6} THEN "steep" ELSE "far"]

OneStuck == [i \in Axes |-> IF i = 3 THEN "pos" ELSE "lin"]

SensorConfigs == {AllPositive, AllNegative, AllLinear, EdgeLinear, OneStuck}

NeverBracketable == {AllPositive, AllNegative}

\* what locals hold before they are first written
StaleValues == [i \in Axes |-> 7]

Zeros == [i \in Axes |-> 0]

CalLocalsInit ==
    /\ cal_pc = "idle"
    /\ offsets_funct = Zeros
    /\ low_offsets = Zeros /\ high_offsets = Zeros
    /\ low_values = StaleValues /\ high_values = StaleValues
    /\ averages = StaleValues
    /\ count = 0 /\ done = FALSE
    /\ use_max_iterations = FALSE /\ max_difference = 0
    /\ cal_ret = FALSE
    /\ br_iters = 0 /\ bi_iters = 0
    /\ set_failed = FALSE /\ avg_failed = FALSE
    /\ sets_after = 0 /\ avgs_after = 0
    /\ samples = 0 /\ narrowed = FALSE

CalInit ==
    /\ CalLocalsInit
    /\ sensor = AllLinear
    /\ int_wraps = TRUE
    /\ mpu_offsets = Zeros
    /\ offset_correction = Zeros

\* setOffsets(arr): twelve verified register writes; any of them can raise
\* the I2C error, and then the registers may or may not hold arr
SetOffsets(arr) ==
    \E fail \in BOOLEAN :
       /\ mpu_state_global' =
             IF fail THEN MPU_I2C_ERROR ELSE mpu_state_global
       /\ mpu_offsets' \in (IF fail THEN {arr, mpu_offsets} ELSE {arr})
       /\ set_failed' = (set_failed \/ fail)
       /\ sets_after' = sets_after + (IF avg_failed THEN 1 ELSE 0)
       /\ UNCHANGED <<avg_failed, avgs_after, samples>>

\* calculateAverages(averages, n, targets): n reads of the six measurements;
\* a read that fails raises the I2C error and contributes zeros, so the
\* result is the normal one (few failed reads) or 0 - target (all failed)
CalculateAverages(n) ==
    \E fail \in BOOLEAN :
       /\ samples' = n
       /\ mpu_state_global' =
             IF fail THEN MPU_I2C_ERROR ELSE mpu_state_global
       /\ averages' \in
             {[i \in Axes |-> AxisAverage(sensor[i], RootOf(sensor[i], i),
                                           mpu_offsets[i])]}
             \cup (IF fail THEN {[i \in Axes |-> Wrap16(0 - targets[i])]}
                           ELSE {})
       /\ avg_failed' = (avg_failed \/ fail)
       /\ avgs_after' = avgs_after + (IF avg_failed THEN 1 ELSE 0)
       /\ UNCHANGED <<mpu_offsets, set_failed, sets_after>>

\* the value of an int expression whose exact value is x: the operands are
\* int16_t, so x fits when int is wider than 16 bits; in a 16-bit int the
\* overflow is undefined and the sum wraps
IntResult(x) == IF int_wraps THEN Wrap16(x) ELSE x

\* (low_offsets[index] + high_offsets[index]) / 2
MidPoint(low, high) ==
    [i \in Axes |-> CDiv(IntResult(low[i] + high[i]), 2)]

\* if (count++ > CALIBRATION_MAX_ITERATIONS) done = true
OverIterations(c) == c > CALIBRATION_MAX_ITERATIONS

\* low_offsets[index] left where it is
LowStepNone(offset) == offset

\* low_offsets[index] -= CALIBRATION_OFFSET_ADJUSTMENT
NextLowOffset(offset) == Wrap16(offset - CALIBRATION_OFFSET_ADJUSTMENT)

\* high_offsets[index] += CALIBRATION_OFFSET_ADJUSTMENT
NextHighOffset(offset) == Wrap16(offset + CALIBRATION_OFFSET_ADJUSTMENT)

\* calibrate(mpu_offsets) as performCalibration calls it, up to the first
\* while (!done)
CallCalibrate ==
    /\ cal_pc = "idle"
    /\ mpu_state_global = MPU_NOT_CALIBRATED
    /\ \E cfg \in SensorConfigs : sensor' = cfg
    /\ \E w \in BOOLEAN : int_wraps' = w
    /\ offsets_funct' = Zeros
    /\ low_offsets' = Zeros
    /\ high_offsets' = Zeros
    /\ low_values' = StaleValues
    /\ high_values' = StaleValues
    /\ averages' = StaleValues
    /\ count' = 0
    /\ done' = FALSE
    /\ use_max_iterations' = FALSE
    /\ max_difference' = 0
    /\ cal_ret' = FALSE
    /\ br_iters' = 0 /\ bi_iters' = 0
    /\ set_failed' = FALSE /\ avg_failed' = FALSE
    /\ sets_after' = 0 /\ avgs_after' = 0
    /\ samples' = 0 /\ narrowed' = FALSE
    /\ cal_pc' = "br_setlow"
    /\ UNCHANGED <<mpu_state_global, mpu_offsets, offset_correction>>
    /\ UNCHANGED notCal

\* done = true; setOffsets(low_offsets)
BracketSetLow ==
    /\ cal_pc = "br_setlow"
    /\ done' = TRUE
    /\ SetOffsets(low_offsets)
    /\ cal_pc' = "br_avglow"
    /\ UNCHANGED <<sensor, int_wraps, offsets_funct, low_offsets,
                   high_offsets, low_values, high_values, averages, count,
                   use_max_iterations, narrowed, max_difference,
                   offset_correction, cal_ret, br_iters, bi_iters>>
    /\ UNCHANGED notCal

\* calculateAverages and the loop that moves the low offsets
BracketAvgLow ==
    /\ cal_pc = "br_avglow"
    /\ CalculateAverages(CALIBRATION_INITIAL_AVERAGES)
    /\ low_values' = averages'
    /\ done' = (done /\ \A i \in Axes : averages'[i] < 0)
    /\ low_offsets' =
          [i \in Axes |->
              IF averages'[i] >= 0
                 THEN NextLowOffset(low_offsets[i])
                 ELSE low_offsets[i]]
    /\ cal_pc' = "br_sethigh"
    /\ UNCHANGED <<sensor, int_wraps, offsets_funct, high_offsets,
                   high_values, count, use_max_iterations, narrowed,
                   max_difference, offset_correction, cal_ret, br_iters,
                   bi_iters>>
    /\ UNCHANGED notCal

\* setOffsets(high_offsets)
BracketSetHigh ==
    /\ cal_pc = "br_sethigh"
    /\ SetOffsets(high_offsets)
    /\ cal_pc' = "br_avghigh"
    /\ UNCHANGED <<sensor, int_wraps, offsets_funct, low_offsets,
                   high_offsets, low_values, high_values, averages, count,
                   done, use_max_iterations, narrowed, max_difference,
                   offset_correction, cal_ret, br_iters, bi_iters>>
    /\ UNCHANGED notCal

\* calculateAverages and the loop that moves the high offsets
BracketAvgHigh ==
    /\ cal_pc = "br_avghigh"
    /\ CalculateAverages(CALIBRATION_INITIAL_AVERAGES)
    /\ high_values' = averages'
    /\ done' = (done /\ \A i \in Axes : averages'[i] > 0)
    /\ high_offsets' =
          [i \in Axes |->
              IF averages'[i] <= 0
                 THEN NextHighOffset(high_offsets[i])
                 ELSE high_offsets[i]]
    /\ cal_pc' = "br_check"
    /\ UNCHANGED <<sensor, int_wraps, offsets_funct, low_offsets, low_values,
                   count, use_max_iterations, narrowed, max_difference,
                   offset_correction, cal_ret, br_iters, bi_iters>>
    /\ UNCHANGED notCal

\* the end of a pass of the first loop: the iteration cap, the I2C check,
\* and, when the loop is left, the statements up to the second loop
BracketCheck ==
    /\ cal_pc = "br_check"
    /\ count' = (count + 1) % 65536
    /\ br_iters' = br_iters + 1
    /\ LET capped == IF OverIterations(count) THEN TRUE ELSE done
           again  == IF count' < CALIBRATION_MAX_ITERATIONS
                        THEN FALSE ELSE capped
       IN  IF mpu_state_global = MPU_I2C_ERROR
              THEN /\ cal_ret' = FALSE
                   /\ cal_pc' = "done"
                   /\ done' = capped
                   /\ UNCHANGED offsets_funct
           ELSE IF ~capped
              THEN /\ cal_pc' = "br_setlow"
                   /\ done' = capped
                   /\ UNCHANGED <<offsets_funct, cal_ret>>
           ELSE /\ done' = again
                /\ offsets_funct' = MidPoint(low_offsets, high_offsets)
                /\ cal_pc' = IF again THEN "select" ELSE "bi_set"
                /\ UNCHANGED cal_ret
    /\ UNCHANGED <<mpu_state_global, sensor, int_wraps, mpu_offsets,
                   low_offsets, high_offsets, low_values, high_values,
                   averages, use_max_iterations, narrowed, max_difference,
                   offset_correction, bi_iters, set_failed, avg_failed,
                   sets_after, avgs_after, samples>>
    /\ UNCHANGED notCal

\* max_difference = 0; done = true; setOffsets(offsets_funct)
BisectSet ==
    /\ cal_pc = "bi_set"
    /\ max_difference' = 0
    /\ done' = TRUE
    /\ SetOffsets(offsets_funct)
    /\ cal_pc' = "bi_avg"
    /\ UNCHANGED <<sensor, int_wraps, offsets_funct, low_offsets, high_offsets,
                   low_values, high_values, averages, count,
                   use_max_iterations, narrowed, offset_correction, cal_ret,
                   br_iters, bi_iters>>
    /\ UNCHANGED notCal

\* if (max_difference < difference) max_difference = difference, over the
\* six components in turn
MaxDifference(diffs) ==
    LET M[i \in 0 .. 6] ==
           IF i = 0 THEN 0
           ELSE IF M[i - 1] < diffs[i] THEN diffs[i] ELSE M[i - 1]
    IN  M[6]

\* calculateAverages (with either number of samples) and the loop over the
\* components that narrows the range
BisectAvg ==
    /\ cal_pc = "bi_avg"
    /\ CalculateAverages(IF use_max_iterations
                            THEN CALIBRATION_AVERAGES
                            ELSE CALIBRATION_INITIAL_AVERAGES)
    /\ low_offsets' = [i \in Axes |-> IF averages'[i] <= 0
                                         THEN offsets_funct[i]
                                         ELSE low_offsets[i]]
    /\ low_values' = [i \in Axes |-> IF averages'[i] <= 0
                                        THEN averages'[i]
                                        ELSE low_values[i]]
    /\ high_offsets' = [i \in Axes |-> IF averages'[i] <= 0
                                          THEN high_offsets[i]
                                          ELSE offsets_funct[i]]
    /\ high_values' = [i \in Axes |-> IF averages'[i] <= 0
                                         THEN high_values[i]
                                         ELSE averages'[i]]
    /\ max_difference' =
          MaxDifference([i \in Axes |->
                            Wrap16(high_offsets'[i] - low_offsets'[i])])
    /\ offsets_funct' = MidPoint(low_offsets', high_offsets')
    /\ cal_pc' = "bi_check"
    /\ UNCHANGED <<sensor, int_wraps, count, done, use_max_iterations,
                   narrowed, offset_correction, cal_ret, br_iters, bi_iters>>
    /\ UNCHANGED notCal

\* the end of a pass of the second loop: progress, the iteration cap and
\* the I2C check
BisectCheck ==
    /\ cal_pc = "bi_check"
    /\ use_max_iterations' =
          IF max_difference <= CALIBRATION_INITIAL_ERROR
             THEN TRUE ELSE use_max_iterations
    /\ narrowed' =
          (narrowed \/ \A i \in Axes :
                          high_offsets[i] - low_offsets[i]
                             <= CALIBRATION_INITIAL_ERROR)
    /\ count' = (count + 1) % 65536
    /\ bi_iters' = bi_iters + 1
    /\ LET open   == IF max_difference > CALIBRATION_MIN_ERROR
                        THEN FALSE ELSE done
           capped == IF OverIterations(count) THEN TRUE ELSE open
       IN  /\ done' = capped
           /\ IF mpu_state_global = MPU_I2C_ERROR
                 THEN /\ cal_ret' = FALSE
                      /\ cal_pc' = "done"
                 ELSE /\ cal_pc' = IF capped THEN "select" ELSE "bi_set"
                      /\ UNCHANGED cal_ret
    /\ UNCHANGED <<mpu_state_global, sensor, int_wraps, mpu_offsets,
                   offsets_funct, low_offsets, high_offsets, low_values,
                   high_values, averages, max_difference, offset_correction,
                   br_iters, set_failed, avg_failed, sets_after, avgs_after,
                   samples>>
    /\ UNCHANGED notCal

\* if ((-1 * low_values[index]) <= high_values[index])
ChooseLow(low_value, high_value) ==
    IntResult((-1) * low_value) <= high_value

\* the selection of the best results and the final test of the count
Select ==
    /\ cal_pc = "select"
    /\ offsets_funct' =
          [i \in Axes |-> IF ChooseLow(low_values[i], high_values[i])
                             THEN low_offsets[i] ELSE high_offsets[i]]
    /\ offset_correction' =
          [i \in Axes |-> IF ChooseLow(low_values[i], high_values[i])
                             THEN low_values[i] ELSE high_values[i]]
    /\ IF count > CALIBRATION_MAX_ITERATIONS
          THEN /\ mpu_state_global' = MPU_CALIBRATION_ERROR
               /\ cal_ret' = FALSE
          ELSE /\ cal_ret' = TRUE
               /\ UNCHANGED mpu_state_global
    /\ cal_pc' = "done"
    /\ UNCHANGED <<sensor, int_wraps, mpu_offsets, low_offsets, high_offsets,
                   low_values, high_values, averages, count, done,
                   use_max_iterations, narrowed, max_difference, br_iters,
                   bi_iters, set_failed, avg_failed, sets_after, avgs_after,
                   samples>>
    /\ UNCHANGED notCal

\* calibrate has returned to its caller
CalReturn ==
    /\ cal_pc = "done"
    /\ cal_pc' = "idle"
    /\ offsets_funct' = Zeros
    /\ low_offsets' = Zeros
    /\ high_offsets' = Zeros
    /\ low_values' = StaleValues
    /\ high_values' = StaleValues
    /\ averages' = StaleValues
    /\ count' = 0
    /\ done' = FALSE
    /\ use_max_iterations' = FALSE
    /\ max_difference' = 0
    /\ cal_ret' = FALSE
    /\ br_iters' = 0 /\ bi_iters' = 0
    /\ set_failed' = FALSE /\ avg_failed' = FALSE
    /\ sets_after' = 0 /\ avgs_after' = 0
    /\ samples' = 0 /\ narrowed' = FALSE
    /\ UNCHANGED <<mpu_state_global, sensor, int_wraps, mpu_offsets,
                   offset_correction>>
    /\ UNCHANGED notCal

(***************************************************************************)
(* Initialization sequence and public operations                           *)
(*                                                                         *)
(* Here a statement that uses the bus is one step: the calls of the        *)
(* register access layer it makes either all succeed or one of them runs   *)
(* out of attempts and sets MPU_I2C_ERROR (readMpuRegisters,               *)
(* writeMpuRegister).                                                      *)
(***************************************************************************)
MPU_SELF_TEST_THRESHOLD == 14

CALIBRATION_MAX_TEMP_DIFF == 25

\* a temperature is held as 34000 * (degrees Celsius)
TempUnit == 34000

\* ((float) temperature_temp / 340) + 36.53
TempOf(raw) == 100 * raw + 1242020

\* raw temperature register values the device answers with
RawTempSamples == {0, 5000, 8500, 13499, -32768}

\* the bus-using calls of a statement: mpu_state_global afterwards
BusOutcomes == {mpu_state_global, MPU_I2C_ERROR}

\* the same, with the record of whether every call succeeded
BusCalls ==
    \E failed \in BOOLEAN :
       /\ mpu_state_global' =
             (IF failed THEN MPU_I2C_ERROR ELSE mpu_state_global)
       /\ seq_clean' = (seq_clean /\ ~failed)

\* self_test as checkMpu assembles it: five bits of the axis register or-ed
\* with up to two bits taken from values_raw[3], a byte beyond the three
\* that were read
SelfTestSamples == {0, 1, 17, 31, 63}

\* factory_trimmed is at least 1392.64 * (0.92 / 0.34) ^ (-1 / 30) for an
\* accelerometer axis and at least 3275 / 1.046 in magnitude for a
\* gyroscope axis; these are the integers below those values
FactoryTrimFloor(i) == IF i < 3 THEN 1347 ELSE 3130

\* abs(100 + 100 * (self_test - factory_trimmed) / factory_trimmed)
\*   > MPU_SELF_TEST_THRESHOLD:
\* the left side is 100 * self_test / |factory_trimmed|, so the test can
\* only exceed the threshold when 100 * self_test exceeds threshold * floor
SelfTestExceeds(st, i) ==
    100 * st > MPU_SELF_TEST_THRESHOLD * FactoryTrimFloor(i)

\* abs(temp_difference) <= CALIBRATION_MAX_TEMP_DIFF
TempInRangeInclusive(current, previous) ==
    LET d == current - previous
    IN  (IF d < 0 THEN -d ELSE d) <= CALIBRATION_MAX_TEMP_DIFF * TempUnit

\* abs(temp_difference) < CALIBRATION_MAX_TEMP_DIFF
TempInRange(current, previous) ==
    LET d == current - previous
    IN  (IF d < 0 THEN -d ELSE d) < CALIBRATION_MAX_TEMP_DIFF * TempUnit

\* a complete record that holds other offsets than those given
SavedRecordStale(offsets, temp) ==
    [a \in EAddrs |->
        IF a = MPU_EEPROM_OFFSET_ADDRESS THEN SignatureComplete
        ELSE PayloadByte(StaleOffsets, temp,
                         a - MPU_EEPROM_OFFSET_ADDRESS - 1)]

\* the record saveOnEEPROM leaves when it runs to completion
SavedRecord(offsets, temp) ==
    [a \in EAddrs |->
        IF a = MPU_EEPROM_OFFSET_ADDRESS THEN SignatureComplete
        ELSE PayloadByte(offsets, temp, a - MPU_EEPROM_OFFSET_ADDRESS - 1)]

SketchInit ==
    /\ pc = "idle"
    /\ called_by = "top"
    /\ last_op = "none"
    /\ op_ret = FALSE
    /\ cur_temp = StaleTemp
    /\ new_offsets = Zeros
    /\ self_test_passed = FALSE
    /\ cal_resolved = FALSE
    /\ cc_wrote = FALSE
    /\ seq_entry = MPU_NOT_INITIALIZED
    /\ seq_clean = FALSE

\* a public operation returns v to the sketch
ReturnToSketch(v) ==
    /\ op_ret' = v
    /\ pc' = "idle"
    /\ called_by' = "top"

\* ---- initialize_1

CallInitialize1 ==
    /\ pc = "idle"
    /\ pc' = "i1_id"
    /\ last_op' = "initialize_1"
    /\ op_ret' = FALSE
    /\ UNCHANGED <<mpu_state_global, eeprom, mpu_offsets, called_by, cur_temp,
                   new_offsets, self_test_passed, cal_resolved, cc_wrote>>
    /\ seq_entry' = mpu_state_global
    /\ seq_clean' = TRUE
    /\ UNCHANGED notInit

\* the read of the device ID and its comparison
I1ReadId ==
    /\ pc = "i1_id"
    /\ \E answer \in {"id", "other", "none"} :
          IF answer = "id"
             THEN /\ pc' = "i1_wake"
                  /\ UNCHANGED <<mpu_state_global, op_ret, called_by,
                                 seq_clean>>
             ELSE /\ mpu_state_global' = MPU_I2C_ERROR
                  /\ seq_clean' = FALSE
                  /\ ReturnToSketch(FALSE)
    /\ UNCHANGED <<eeprom, mpu_offsets, last_op, cur_temp, new_offsets,
                   self_test_passed, cal_resolved, cc_wrote>>
    /\ UNCHANGED seq_entry
    /\ UNCHANGED notInit

\* the clock reference and setLowPowerMode(false); no check follows
I1Wake ==
    /\ pc = "i1_wake"
    /\ BusCalls
    /\ pc' = "i1_test"
    /\ UNCHANGED <<eeprom, mpu_offsets, called_by, last_op, op_ret, cur_temp,
                   new_offsets, self_test_passed, cal_resolved, cc_wrote>>
    /\ UNCHANGED seq_entry
    /\ UNCHANGED notInit

\* if (!checkMpu()) return false
I1CheckMpu ==
    /\ pc = "i1_test"
    /\ \E scale_ok \in BOOLEAN, read_ok \in BOOLEAN,
          st \in SelfTestSamples, i \in 0 .. 5 :
          IF ~read_ok
             THEN /\ mpu_state_global' = MPU_I2C_ERROR
                  /\ seq_clean' = FALSE
                  /\ ReturnToSketch(FALSE)
                  /\ UNCHANGED self_test_passed
          ELSE IF SelfTestExceeds(st, i)
             THEN /\ mpu_state_global' = MPU_SELF_TEST_FAILED_BASE + i
                  /\ seq_clean' = (seq_clean /\ scale_ok)
                  /\ ReturnToSketch(FALSE)
                  /\ UNCHANGED self_test_passed
          ELSE /\ mpu_state_global' =
                     (IF scale_ok THEN mpu_state_global ELSE MPU_I2C_ERROR)
               /\ seq_clean' = (seq_clean /\ scale_ok)
               /\ self_test_passed' = TRUE
               /\ pc' = "i1_cfg"
               /\ UNCHANGED <<op_ret, called_by>>
    /\ UNCHANGED <<eeprom, mpu_offsets, last_op, cur_temp, new_offsets,
                   cal_resolved, cc_wrote>>
    /\ UNCHANGED seq_entry
    /\ UNCHANGED notInit

\* configureMpu(); if (mpu_state_global == MPU_I2C_ERROR) return false
I1Configure ==
    /\ pc = "i1_cfg"
    /\ BusCalls
    /\ IF mpu_state_global' = MPU_I2C_ERROR
          THEN ReturnToSketch(FALSE)
          ELSE /\ pc' = "cc_temp"
               /\ called_by' = "init1"
               /\ UNCHANGED op_ret
    /\ cc_wrote' = FALSE
    /\ UNCHANGED <<eeprom, mpu_offsets, last_op, cur_temp, new_offsets,
                   self_test_passed, cal_resolved>>
    /\ UNCHANGED seq_entry
    /\ UNCHANGED notInit

\* ---- checkCalibration

CallCheckCalibration ==
    /\ pc = "idle"
    /\ pc' = "cc_temp"
    /\ called_by' = "top"
    /\ last_op' = "checkCalibration"
    /\ op_ret' = FALSE
    /\ cc_wrote' = FALSE
    /\ UNCHANGED <<mpu_state_global, eeprom, mpu_offsets, cur_temp,
                   new_offsets, self_test_passed, cal_resolved>>
    /\ seq_clean' = FALSE
    /\ UNCHANGED seq_entry
    /\ UNCHANGED notInit

\* mpu_current_temperature = getTemperature(): a failed read leaves zeros
CcGetTemperature ==
    /\ pc = "cc_temp"
    /\ \/ /\ mpu_state_global' = MPU_I2C_ERROR
          /\ cur_temp' = TempOf(0)
          /\ seq_clean' = FALSE
       \/ /\ \E raw \in RawTempSamples : cur_temp' = TempOf(raw)
          /\ UNCHANGED <<mpu_state_global, seq_clean>>
    /\ pc' = "cc_load"
    /\ UNCHANGED <<eeprom, mpu_offsets, called_by, last_op, op_ret,
                   new_offsets, self_test_passed, cal_resolved, cc_wrote>>
    /\ UNCHANGED seq_entry
    /\ UNCHANGED notInit

\* what checkCalibration's called_by does with its result v: initialize_1
\* returns false only when the state is MPU_I2C_ERROR
CheckCalibrationReturns(v) ==
    IF called_by = "init1"
       THEN ReturnToSketch(v \/ mpu_state_global' # MPU_I2C_ERROR)
       ELSE ReturnToSketch(v)

\* loadFromEEPROM and the temperature test; without a usable record
\* mpu_state_global = MPU_NOT_CALIBRATED; return false
CcLoad ==
    /\ pc = "cc_load"
    /\ IF /\ SignatureAccepted(eeprom[MPU_EEPROM_OFFSET_ADDRESS])
          /\ TempInRange(cur_temp, LoadedTemp(eeprom))
          THEN /\ pc' = "cc_set"
               /\ UNCHANGED <<mpu_state_global, op_ret, called_by>>
          ELSE /\ mpu_state_global' = MPU_NOT_CALIBRATED
               /\ CheckCalibrationReturns(FALSE)
    /\ UNCHANGED <<eeprom, mpu_offsets, last_op, cur_temp, new_offsets,
                   self_test_passed, cal_resolved, cc_wrote>>
    /\ UNCHANGED <<seq_entry, seq_clean>>
    /\ UNCHANGED notInit

\* setOffsets(mpu_offsets); if (mpu_state_global == MPU_I2C_ERROR) return
\* false; return true
CcSetOffsets ==
    /\ pc = "cc_set"
    /\ BusCalls
    /\ mpu_offsets' \in
          {LoadedOffsets(eeprom)} \cup
          (IF mpu_state_global' = MPU_I2C_ERROR THEN {mpu_offsets} ELSE {})
    /\ CheckCalibrationReturns(mpu_state_global' # MPU_I2C_ERROR)
    /\ cal_resolved' = (cal_resolved \/ mpu_state_global' # MPU_I2C_ERROR)
    /\ cc_wrote' = TRUE
    /\ UNCHANGED <<eeprom, last_op, cur_temp, new_offsets, self_test_passed>>
    /\ UNCHANGED seq_entry
    /\ UNCHANGED notInit

\* ---- initialize_2

CallInitialize2 ==
    /\ pc = "idle"
    /\ pc' = "i2_entry"
    /\ last_op' = "initialize_2"
    /\ op_ret' = FALSE
    /\ UNCHANGED <<mpu_state_global, eeprom, mpu_offsets, called_by, cur_temp,
                   new_offsets, self_test_passed, cal_resolved, cc_wrote>>
    /\ seq_clean' = (seq_clean /\ last_op = "initialize_1")
    /\ UNCHANGED seq_entry
    /\ UNCHANGED notInit

\* if (mpu_state_global == MPU_NOT_CALIBRATED)
I2Entry ==
    /\ pc = "i2_entry"
    /\ pc' = IF mpu_state_global = MPU_NOT_CALIBRATED
                THEN "i2_precal" ELSE "i2_filter"
    /\ UNCHANGED <<mpu_state_global, eeprom, mpu_offsets, called_by, last_op,
                   op_ret, cur_temp, new_offsets, self_test_passed,
                   cal_resolved, cc_wrote>>
    /\ UNCHANGED <<seq_entry, seq_clean>>
    /\ UNCHANGED notInit

\* the configuration for the calibration and the I2C check after it
I2PrepareCalibration ==
    /\ pc = "i2_precal"
    /\ BusCalls
    /\ IF mpu_state_global' = MPU_I2C_ERROR
          THEN ReturnToSketch(FALSE)
          ELSE /\ pc' = "pc_cal"
               /\ called_by' = "init2"
               /\ UNCHANGED op_ret
    /\ UNCHANGED <<eeprom, mpu_offsets, last_op, cur_temp, new_offsets,
                   self_test_passed, cal_resolved, cc_wrote>>
    /\ UNCHANGED seq_entry
    /\ UNCHANGED notInit

\* ---- performCalibration

CallPerformCalibration ==
    /\ pc = "idle"
    /\ pc' = "pc_cal"
    /\ called_by' = "top"
    /\ last_op' = "performCalibration"
    /\ op_ret' = FALSE
    /\ UNCHANGED <<mpu_state_global, eeprom, mpu_offsets, cur_temp,
                   new_offsets, self_test_passed, cal_resolved, cc_wrote>>
    /\ seq_clean' = FALSE
    /\ UNCHANGED seq_entry
    /\ UNCHANGED notInit

\* What a call of calibrate can end with: it returns false with
\* MPU_I2C_ERROR set when it finds that state at the end of a pass, false
\* with MPU_CALIBRATION_ERROR when the count went over the cap, and true
\* with the state as it was otherwise.
CalibrateOutcomes ==
    IF mpu_state_global = MPU_I2C_ERROR
       THEN {"i2c"} ELSE {"ok", "i2c", "over"}

\* correct = calibrate(mpu_offsets); if (!correct) return false;
\* mpu_state_global = MPU_NOT_INITIALIZED
PcCalibrate ==
    /\ pc = "pc_cal"
    /\ \E outcome \in CalibrateOutcomes, offsets \in OffsetSamples :
          IF outcome = "ok"
             THEN /\ mpu_state_global' = MPU_NOT_INITIALIZED
                  /\ new_offsets' = offsets
                  /\ mpu_offsets' = offsets
                  /\ cal_resolved' = TRUE
                  /\ pc' = "pc_apply"
                  /\ UNCHANGED <<op_ret, called_by, cc_wrote, seq_clean>>
             ELSE /\ mpu_state_global' =
                        IF outcome = "i2c" THEN MPU_I2C_ERROR
                                           ELSE MPU_CALIBRATION_ERROR
                  /\ mpu_offsets' = offsets
                  /\ seq_clean' = (seq_clean /\ outcome # "i2c")
                  /\ ReturnToSketch(FALSE)
                  /\ UNCHANGED <<new_offsets, cal_resolved, cc_wrote>>
    /\ UNCHANGED <<eeprom, last_op, cur_temp, self_test_passed>>
    /\ UNCHANGED seq_entry
    /\ UNCHANGED notInit

\* getTemperature, setOffsets, the I2C check and saveOnEEPROM
PcApply ==
    /\ pc = "pc_apply"
    /\ \/ /\ mpu_state_global' = MPU_I2C_ERROR
          /\ cur_temp' \in {TempOf(raw) : raw \in RawTempSamples}
          /\ seq_clean' = FALSE
       \/ /\ \E raw \in RawTempSamples : cur_temp' = TempOf(raw)
          /\ UNCHANGED <<mpu_state_global, seq_clean>>
    /\ mpu_offsets' \in
          {new_offsets} \cup
          (IF mpu_state_global' = MPU_I2C_ERROR THEN {mpu_offsets} ELSE {})
    /\ IF mpu_state_global' = MPU_I2C_ERROR
          THEN /\ ReturnToSketch(FALSE)
               /\ UNCHANGED eeprom
          ELSE /\ eeprom' = SavedRecord(new_offsets, cur_temp')
               /\ IF called_by = "init2"
                     THEN /\ pc' = "i2_postcal"
                          /\ called_by' = "top"
                          /\ UNCHANGED op_ret
                     ELSE ReturnToSketch(TRUE)
    /\ UNCHANGED <<last_op, new_offsets, self_test_passed, cal_resolved,
                   cc_wrote>>
    /\ UNCHANGED seq_entry
    /\ UNCHANGED notInit

\* configureMpu() after the calibration; no check follows
I2ConfigureAfterCalibration ==
    /\ pc = "i2_postcal"
    /\ BusCalls
    /\ pc' = "i2_filter"
    /\ UNCHANGED <<eeprom, mpu_offsets, called_by, last_op, op_ret, cur_temp,
                   new_offsets, self_test_passed, cal_resolved, cc_wrote>>
    /\ UNCHANGED seq_entry
    /\ UNCHANGED notInit

\* the filter, the sample rate, resetSignalPath and the I2C check
I2Filter ==
    /\ pc = "i2_filter"
    /\ BusCalls
    /\ IF mpu_state_global' = MPU_I2C_ERROR
          THEN ReturnToSketch(FALSE)
          ELSE /\ pc' = "i2_corr"
               /\ UNCHANGED <<op_ret, called_by>>
    /\ UNCHANGED <<eeprom, mpu_offsets, last_op, cur_temp, new_offsets,
                   self_test_passed, cal_resolved, cc_wrote>>
    /\ UNCHANGED seq_entry
    /\ UNCHANGED notInit

\* getOffsetCorrection(), configureMpu(), resetSignalPath(); no check
\* follows
I2Correction ==
    /\ pc = "i2_corr"
    /\ BusCalls
    /\ pc' = "i2_final"
    /\ UNCHANGED <<eeprom, mpu_offsets, called_by, last_op, op_ret, cur_temp,
                   new_offsets, self_test_passed, cal_resolved, cc_wrote>>
    /\ UNCHANGED seq_entry
    /\ UNCHANGED notInit

\* if (mpu_state_global != MPU_NOT_INITIALIZED) return false;
\* mpu_state_global = MPU_CORRECT; return true
I2Final ==
    /\ pc = "i2_final"
    /\ IF mpu_state_global # MPU_NOT_INITIALIZED
          THEN /\ ReturnToSketch(FALSE)
               /\ UNCHANGED mpu_state_global
          ELSE /\ mpu_state_global' = MPU_CORRECT
               /\ ReturnToSketch(TRUE)
    /\ UNCHANGED <<eeprom, mpu_offsets, last_op, cur_temp, new_offsets,
                   self_test_passed, cal_resolved, cc_wrote>>
    /\ UNCHANGED <<seq_entry, seq_clean>>
    /\ UNCHANGED notInit

\* ---- other public operations

\* getOffsetCorrection(): one averaging pass
CallGetOffsetCorrection ==
    /\ pc = "idle"
    /\ mpu_state_global' \in BusOutcomes
    /\ last_op' = "getOffsetCorrection"
    /\ op_ret' = FALSE
    /\ UNCHANGED <<eeprom, mpu_offsets, pc, called_by, cur_temp, new_offsets,
                   self_test_passed, cal_resolved, cc_wrote>>
    /\ seq_clean' = FALSE
    /\ UNCHANGED seq_entry
    /\ UNCHANGED notInit

\* simplifiedKF(current_time): getRefinedValues reads the device before the
\* state is tested
CallSimplifiedKF ==
    /\ pc = "idle"
    /\ mpu_state_global' \in BusOutcomes
    /\ last_op' = "simplifiedKF"
    /\ op_ret' = (mpu_state_global' = MPU_CORRECT)
    /\ UNCHANGED <<eeprom, mpu_offsets, pc, called_by, cur_temp, new_offsets,
                   self_test_passed, cal_resolved, cc_wrote>>
    /\ seq_clean' = FALSE
    /\ UNCHANGED seq_entry
    /\ UNCHANGED notInit

\* the board is powered again: the MpuDev object of the sketch is built
\* anew, the device registers are reset, the EEPROM keeps its content
PowerOn ==
    /\ mpu_state_global' = MPU_NOT_INITIALIZED
    /\ mpu_offsets' = Zeros
    /\ pc' = "idle"
    /\ called_by' = "top"
    /\ last_op' = "none"
    /\ op_ret' = FALSE
    /\ cur_temp' = StaleTemp
    /\ new_offsets' = Zeros
    /\ self_test_passed' = FALSE
    /\ cal_resolved' = FALSE
    /\ cc_wrote' = FALSE
    /\ UNCHANGED eeprom
    /\ seq_entry' = MPU_NOT_INITIALIZED
    /\ seq_clean' = FALSE
    /\ UNCHANGED notInit

(***************************************************************************)
(* calculateAverages and the data-ready interrupt                          *)
(*                                                                         *)
(* The interrupt routine of the sketch runs between any two statements of  *)
(* the sampling loop.                                                      *)
(***************************************************************************)
AvgInit ==
    /\ mpu_data_ready = FALSE
    /\ overflow = FALSE
    /\ time_buffer = 0
    /\ signals = 0
    /\ av_pc = "idle"
    /\ av_n = 0
    /\ av_index = 0
    /\ av_ids = <<>>
    /\ av_sum = 0

\* what millis() returns when the interrupt routine runs (milliseconds);
\* it does not go backwards
MillisSamples == {0, 1000, 1500}

\* if (mpu_data_ready) overflow = true
OverflowKept(ov, flag) == ov

OverflowAfter(ov, flag) == ov \/ flag

\* mpuDataReady(), attached to the rising edge of the interrupt pin
MpuDataReady ==
    /\ signals < MaxSignals
    /\ overflow' = OverflowAfter(overflow, mpu_data_ready)
    /\ mpu_data_ready' = TRUE
    /\ \E t \in MillisSamples : t >= time_buffer /\ time_buffer' = t
    /\ signals' = signals + 1
    /\ UNCHANGED <<mpu_state_global, av_pc, av_n, av_index, av_ids, av_sum>>
    /\ UNCHANGED notAvg

\* calculateAverages(averages_funct, n, targets_funct) up to the first
\* test of the sampling loop
CallCalculateAverages ==
    /\ av_pc = "idle"
    /\ \E n \in 1 .. MaxSamples : av_n' = n
    /\ av_index' = 0
    /\ av_ids' = <<>>
    /\ av_sum' = 0
    /\ signals' = IF mpu_data_ready THEN 1 ELSE 0
    /\ av_pc' = "test"
    /\ UNCHANGED <<mpu_state_global, mpu_data_ready, overflow>>
    /\ UNCHANGED time_buffer
    /\ UNCHANGED notAvg

\* index < number_of_iterations
AvgLoopTest ==
    /\ av_pc = "test"
    /\ av_pc' = IF av_index < av_n THEN "wait" ELSE "done"
    /\ UNCHANGED <<mpu_state_global, mpu_data_ready, overflow, signals, av_n,
                   av_index, av_ids, av_sum>>
    /\ UNCHANGED time_buffer
    /\ UNCHANGED notAvg

\* while (!mpu_data_ready) {}
AvgWait ==
    /\ av_pc = "wait"
    /\ mpu_data_ready
    /\ av_pc' = "read"
    /\ UNCHANGED <<mpu_state_global, mpu_data_ready, overflow, signals, av_n,
                   av_index, av_ids, av_sum>>
    /\ UNCHANGED time_buffer
    /\ UNCHANGED notAvg

\* getParameter6(values_raw): the sample the latest interrupt announced; a
\* read that fails raises the I2C error
AvgRead ==
    /\ av_pc = "read"
    /\ av_ids' = Append(av_ids, signals)
    /\ mpu_state_global' \in {mpu_state_global, MPU_I2C_ERROR}
    /\ av_pc' = "reset"
    /\ UNCHANGED <<mpu_data_ready, overflow, signals, av_n, av_index, av_sum>>
    /\ UNCHANGED time_buffer
    /\ UNCHANGED notAvg

\* mpu_data_ready = false
FlagLeftSet(flag) == flag

FlagAfterRead(flag) == FALSE

\* mpu_data_ready = false; sum_average[index] += values_raw[index]; index++
AvgReset ==
    /\ av_pc = "reset"
    /\ mpu_data_ready' = FlagAfterRead(mpu_data_ready)
    /\ av_sum' = av_sum + av_ids[Len(av_ids)]
    /\ av_index' = av_index + 1
    /\ av_pc' = "test"
    /\ UNCHANGED <<mpu_state_global, overflow, signals, av_n, av_ids>>
    /\ UNCHANGED time_buffer
    /\ UNCHANGED notAvg

\* the averages are computed and calculateAverages returns
AvgReturn ==
    /\ av_pc = "done"
    /\ av_pc' = "idle"
    /\ UNCHANGED <<mpu_state_global, mpu_data_ready, overflow, signals, av_n,
                   av_index, av_ids, av_sum>>
    /\ UNCHANGED time_buffer
    /\ UNCHANGED notAvg

(***************************************************************************)
(* Self-test (checkMpu)                                                    *)
(***************************************************************************)

\* contents of the self-test registers 0x0D .. 0x0F of the device
TestByteSamples == {0, 8, 255}

\* contents of the register 0x10 of the device
TestRegASamples == {0, 21}

\* what the memory behind the array holds
StackByteSamples == {0, 48, 255}

\* self_test of accelerometer axis i:
\* (values_raw[i] >> 3) | (values_raw[3] & (0x30 >> (2 * i)))
AccelSelfTest(raw, behind, i) ==
    BitOr8(raw[i] \div 8, BitAnd8(behind, 48 \div Pow2(2 * i)))

\* self_test of gyroscope axis i: values_raw[i] & 0x1F
GyroSelfTest(raw, i) == BitAnd8(raw[i], 31)

\* 100 * 1392.64 * pow(0.92 / 0.34, (self_test - 1.0) / 30.0), rounded, for
\* self_test = 0 .. 63 (entry self_test + 1)
AccelTrimTable ==
    <<134719, 139264, 143962, 148819, 153840, 159030, 164396, 169942,
      175675, 181602, 187729, 194063, 200610, 207378, 214374, 221607,
      229083, 236812, 244801, 253060, 261598, 270424, 279547, 288978,
      298728, 308806, 319225, 329994, 341128, 352636, 364534, 376832,
      389545, 402688, 416273, 430317, 444835, 459843, 475357, 491394,
      507973, 525111, 542827, 561140, 580072, 599642, 619872, 640785,
      662404, 684752, 707854, 731735, 756422, 781942, 808322, 835593,
      863784, 892926, 923051, 954193, 986385, 1019663, 1054064, 1089625>>

\* 100 * 3275.0 * pow(1.046, self_test - 1.0), rounded, for
\* self_test = 0 .. 31 (entry self_test + 1)
GyroTrimTable ==
    <<313098, 327500, 342565, 358323, 374806, 392047, 410081, 428945,
      448676, 469315, 490904, 513485, 537106, 561813, 587656, 614688,
      642964, 672540, 703477, 735837, 769686, 805091, 842125, 880863,
      921383, 963766, 1008100, 1054472, 1102978, 1153715, 1206786, 1262298>>

\* factory_trimmed, in hundredths, of the axis with index k in the order
\* Ax, Ay, Az, Gx, Gy, Gz; if (i == 1) factory_trimmed *= -1 for Gy
FactoryTrimmed(k, st) ==
    IF k < 3 THEN AccelTrimTable[st + 1]
    ELSE IF k = 4 THEN -GyroTrimTable[st + 1]
    ELSE GyroTrimTable[st + 1]

\* factory_trimmed = 100 + 100 * (self_test - factory_trimmed) /
\* factory_trimmed; abs(factory_trimmed) > MPU_SELF_TEST_THRESHOLD
\* (both sides multiplied by |factory_trimmed|, in hundredths)
OverThreshold(st, trim) ==
    Abs(100 * trim + 100 * (100 * st - trim))
       > MPU_SELF_TEST_THRESHOLD * Abs(trim)

TestLocalsInit ==
    /\ st_pc = "idle"
    /\ values_raw = [k \in 0 .. 2 |-> 7]
    /\ st_i = 0
    /\ st_self_test = 0
    /\ st_codes = <<>>
    /\ st_read_len = 0
    /\ st_configured = FALSE
    /\ st_ret = FALSE

TestInit ==
    /\ TestLocalsInit
    /\ test_regs = [k \in 0 .. 3 |-> 0]
    /\ stack_byte = 0

\* checkMpu(), up to the first statement that uses the bus
CallCheckMpu ==
    /\ st_pc = "idle"
    /\ \E b0 \in TestByteSamples, b1 \in TestByteSamples,
          b2 \in TestByteSamples, b3 \in TestRegASamples :
          test_regs' = [k \in 0 .. 3 |->
                           IF k = 0 THEN b0 ELSE IF k = 1 THEN b1
                           ELSE IF k = 2 THEN b2 ELSE b3]
    /\ \E b \in StackByteSamples : stack_byte' = b
    /\ values_raw' = [k \in 0 .. 2 |-> 7]
    /\ st_i' = 0
    /\ st_self_test' = 0
    /\ st_codes' = <<>>
    /\ st_read_len' = 0
    /\ st_configured' = FALSE
    /\ st_ret' = FALSE
    /\ st_pc' = "config"
    /\ UNCHANGED mpu_state_global
    /\ UNCHANGED notTest

\* changeFullScale(MPU_SELF_TEST_ACCEL_REG_VALUE,
\* MPU_SELF_TEST_GYRO_REG_VALUE); delay(MPU_SELF_TEST_WAIT_TIME)
TestConfigure ==
    /\ st_pc = "config"
    /\ mpu_state_global' \in {mpu_state_global, MPU_I2C_ERROR}
    /\ st_configured' = TRUE
    /\ st_pc' = "read"
    /\ UNCHANGED <<test_regs, stack_byte, values_raw, st_i, st_self_test,
                   st_codes, st_read_len, st_ret>>
    /\ UNCHANGED notTest

\* if (!readMpuRegisters(MPU_SELF_TEST_RESULT_ADDR_BASE, values_raw, 3))
\* return false
TestRead ==
    /\ st_pc = "read"
    /\ st_read_len' = 3
    /\ \E ok \in BOOLEAN :
          IF ok
             THEN /\ values_raw' = [k \in 0 .. 2 |-> test_regs[k]]
                  /\ st_pc' = "accel"
                  /\ UNCHANGED <<mpu_state_global, st_ret>>
             ELSE /\ values_raw' = [k \in 0 .. 2 |-> 0]
                  /\ mpu_state_global' = MPU_I2C_ERROR
                  /\ st_ret' = FALSE
                  /\ st_pc' = "done"
    /\ UNCHANGED <<test_regs, stack_byte, st_i, st_self_test, st_codes,
                   st_configured>>
    /\ UNCHANGED notTest

\* one pass of the accelerometer loop
TestAccelAxis ==
    /\ st_pc = "accel"
    /\ st_self_test' = AccelSelfTest(values_raw, stack_byte, st_i)
    /\ st_codes' = Append(st_codes, st_self_test')
    /\ IF OverThreshold(st_self_test', FactoryTrimmed(st_i, st_self_test'))
          THEN /\ mpu_state_global' = MPU_SELF_TEST_FAILED_BASE + st_i
               /\ st_ret' = FALSE
               /\ st_pc' = "done"
               /\ UNCHANGED st_i
          ELSE /\ st_i' = IF st_i = 2 THEN 0 ELSE st_i + 1
               /\ st_pc' = IF st_i = 2 THEN "gyro" ELSE "accel"
               /\ UNCHANGED <<mpu_state_global, st_ret>>
    /\ UNCHANGED <<test_regs, stack_byte, values_raw, st_read_len,
                   st_configured>>
    /\ UNCHANGED notTest

\* one pass of the gyroscope loop; return true after the last
TestGyroAxis ==
    /\ st_pc = "gyro"
    /\ st_self_test' = GyroSelfTest(values_raw, st_i)
    /\ st_codes' = Append(st_codes, st_self_test')
    /\ IF OverThreshold(st_self_test',
                        FactoryTrimmed(3 + st_i, st_self_test'))
          THEN /\ mpu_state_global' = MPU_SELF_TEST_FAILED_BASE + 3 + st_i
               /\ st_ret' = FALSE
               /\ st_pc' = "done"
               /\ UNCHANGED st_i
          ELSE /\ st_i' = IF st_i = 2 THEN 2 ELSE st_i + 1
               /\ st_pc' = IF st_i = 2 THEN "done" ELSE "gyro"
               /\ st_ret' = (st_i = 2)
               /\ UNCHANGED mpu_state_global
    /\ UNCHANGED <<test_regs, stack_byte, values_raw, st_read_len,
                   st_configured>>
    /\ UNCHANGED notTest

\* checkMpu has returned to its caller
TestReturn ==
    /\ st_pc = "done"
    /\ st_pc' = "idle"
    /\ UNCHANGED mpu_state_global
    /\ values_raw' = [k \in 0 .. 2 |-> 7]
    /\ st_i' = 0
    /\ st_self_test' = 0
    /\ st_codes' = <<>>
    /\ st_read_len' = 0
    /\ st_configured' = FALSE
    /\ st_ret' = FALSE
    /\ UNCHANGED <<test_regs, stack_byte>>
    /\ UNCHANGED notTest

(***************************************************************************)
(* The angle filter (simplifiedKF)                                         *)
(*                                                                         *)
(* The program computes in double.  The model computes in fixed point: a   *)
(* double is the integer nearest to Scale times its value and every        *)
(* product and quotient is rounded toward zero.  Angles are held in        *)
(* degrees and rates in degrees per second, so the factor M_PI / 180 of    *)
(* getRefinedValues is the unit and sin, cos and atan2 take and give       *)
(* degrees.                                                                *)
(***************************************************************************)
\* the fixed-point unit
Scale == 1024

Fix(n) == n * Scale

\* a * b and a / b of two doubles
FMul(a, b) == CDiv(a * b, Scale)

FDiv(a, b) == CDiv(a * Scale, b)

\* gyro_covariance and accel_covariance
gyro_covariance == CDiv(203263 * Scale, 1000000)

accel_covariance == Fix(1)

\* the variance accelState gives a vector of magnitude zero
ACCEL_FAULT_COVARIANCE == Fix(1000)

\* sqrt(n) of an integer, rounded down
RECURSIVE ISqrtIn(_, _, _)
ISqrtIn(n, lo, hi) ==
    IF lo = hi THEN lo
    ELSE LET mid == (lo + hi + 1) \div 2
         IN  IF mid * mid <= n THEN ISqrtIn(n, mid, hi)
             ELSE ISqrtIn(n, lo, mid - 1)

\* sqrt(x) of a double
Sqrt(x) == ISqrtIn(x * Scale, 0, 46340)

\* square(x)
Square(x) == FMul(x, x)

\* sin of an angle of 0 .. 180 degrees: 4x(180 - x) / (40500 - x(180 - x)),
\* exact at 0, 30, 90, 150 and 180 degrees
SinHalfTurn(a) ==
    LET xq == a \div 64
        p  == xq * (2880 - xq)
    IN  ((1024 * p) \div (10368000 - p)) * 4

\* sin(a) and cos(a)
Sin(a) ==
    LET r == a % Fix(360)
    IN  IF r <= Fix(180) THEN SinHalfTurn(r) ELSE 0 - SinHalfTurn(r - Fix(180))

Cos(a) == Sin(a + Fix(90))

\* atan(z) of 0 <= z <= 1: 45 z + 15.64 z (1 - z) degrees, exact at 0 and 1
AtanUnit(z) == FMul(Fix(45), z) + FMul(FMul(16015, z), Scale - z)

\* atan2(y, x)
Atan2(y, x) ==
    LET ay == Abs(y)
        ax == Abs(x)
        first == IF ay = 0 THEN 0
                 ELSE IF ay <= ax THEN AtanUnit(FDiv(ay, ax))
                 ELSE Fix(90) - AtanUnit(FDiv(ax, ay))
        half == IF x >= 0 THEN first ELSE Fix(180) - first
    IN  IF y >= 0 THEN half ELSE 0 - half

\* getRefinedValues without the offsets (used to show what the offsets do)
RefinedRaw(raw, off, g1, dps) ==
    [i \in Axes |->
        IF i <= 3 THEN CDiv(raw[i] * Scale, g1)
        ELSE CDiv(raw[i] * Scale * 10, dps)]

\* getRefinedValues: the measurements of the raw values raw, with the offset
\* correction off, accel_1g_value g1 and gyro_1dps_value dps (in tenths)
Refined(raw, off, g1, dps) ==
    [i \in Axes |->
        IF i <= 3 THEN CDiv((raw[i] - off[i]) * Scale, g1)
        ELSE CDiv((raw[i] - off[i]) * Scale * 10, dps)]

\* mpu_state_global != MPU_CORRECT, the test that ends simplifiedKF early,
\* and a test that stops on a bus error only
StopsOnError(dev_state) == dev_state = MPU_I2C_ERROR

StopsFilter(dev_state) == dev_state # MPU_CORRECT

\* rotate(measurements_ref, rotated_values) with the angles st
Rotate(m, st) ==
    << FMul(m[4], Cos(st[1])) + FMul(m[6], Sin(st[2])),
       (FMul(m[4], FMul(Sin(st[1]), Sin(st[2]))) + FMul(m[5], Cos(st[1])))
          - FMul(m[6], FMul(Sin(st[1]), Cos(st[2]))) >>

\* integrate(d_time, angular_speed_1, angular_speed_2, integration_result)
Integrate(d_time, w1, w2) ==
    LET half == FDiv(d_time, Fix(2))
    IN  << FMul(half, w1[1] + w2[1]), FMul(half, w1[2] + w2[2]) >>

\* (double)(current_time - prev_time) / 1000.0; the modelled timestamps
\* never decrease, so the unsigned difference does not wrap
DeltaTime(now, before) == CDiv((now - before) * Scale, 1000)

\* state_covariance[0] + square(delta_time) * gyro_covariance
PredictedCovariance(p, d_time) == p + FMul(Square(d_time), gyro_covariance)

\* accelState(measurements_ref, state_pred, accel_cov_funct): the content of
\* the two output arguments at the return, given their content before
AccelState(m, state_pred, accel_cov) ==
    LET n == Sqrt((Square(m[1]) + Square(m[2])) + Square(m[3]))
    IN  IF n = 0
        THEN [state_pred |-> state_pred,
              accel_cov |-> ACCEL_FAULT_COVARIANCE]
        ELSE LET c  == IF n < Fix(1) THEN Fix(1) - n ELSE n - Fix(1)
                 nx == FDiv(m[1], n)
                 ny == FDiv(m[2], n)
                 nz == FDiv(m[3], n)
             IN  [state_pred |->
                     << Atan2(ny, Sqrt(Square(nx) + Square(nz))),
                        0 - Atan2(nx, Sqrt(Square(ny) + Square(nz))) >>,
                  accel_cov |-> n + (Fix(1) + FMul(FMul(Fix(10), c), c))]

\* the Kalman gain p / (p + r)
KalmanGain(p, r) == FDiv(p, p + r)

\* (1 - gain) * p, and the product with the difference reversed
CovarianceReversed(gain, p) == FMul(gain - Fix(1), p)

CovarianceAfter(gain, p) == FMul(Fix(1) - gain, p)

\* ---- inputs
\* the builds: accel_1g_value and gyro_1dps_value (in tenths) of the 8 g,
\* 1000 dps build of the header as it is and of the default build
Builds == {<<4096, 328>>, <<16384, 1310>>}

\* device states the initialization sequence leaves behind
DeviceStateSamples == {MPU_CORRECT, MPU_NOT_CALIBRATED}

\* offset corrections calibrate leaves behind (the averages recorded at
\* the offsets it selects)
OffsetCorrectionSamples == {Zeros, <<0, 64, 0, 0 - 328, 0, 0>>}

\* raw measurements: at rest on 1 g (of either build), free fall, on its
\* side and turning about x
RawSamples ==
    { <<0, 0, 16384, 0, 0, 0>>,
      <<0, 0, 4096, 0, 0, 0>>,
      <<0, 0, 0, 0, 0, 0>>,
      <<0, 4096, 0, 3280, 0, 0>> }

\* what the stack holds where state_accel is placed
StaleAngles == {<<0, 0>>, <<Fix(90), 0 - Fix(45)>>}

\* calls of simplifiedKF in one behaviour
MaxKfCalls == 3

KfStateInit ==
    /\ state = <<0, 0>>
    /\ state_covariance = <<0, 0>>
    /\ rotated_ang_speed_prev = <<0, 0>>
    /\ prev_time = 0
    /\ kf_pc = "idle"
    /\ kf_calls = 0
    /\ kf_entry = [state |-> <<0, 0>>, state_covariance |-> <<0, 0>>,
                   rotated_ang_speed_prev |-> <<0, 0>>, prev_time |-> 0,
                   mpu_state_global |-> MPU_NOT_INITIALIZED]
    /\ current_time = 0
    /\ raw_values = Zeros
    /\ measurements_funct = Zeros
    /\ angular_speed_1 = <<0, 0>>
    /\ delta_time = 0
    /\ state_accel = <<0, 0>>
    /\ temp_funct = <<0, 0>>
    /\ kf_ret = <<0, 0>>

KfInit ==
    /\ KfStateInit
    /\ accel_1g_value = 4096
    /\ gyro_1dps_value = 328

\* the sketch before the filter runs: the initialization sequence leaves a
\* device state and, when it has calibrated, an offset correction
KfPrepare ==
    /\ kf_pc = "idle"
    /\ kf_calls = 0
    /\ mpu_state_global = MPU_NOT_INITIALIZED
    /\ mpu_state_global' \in DeviceStateSamples
    /\ offset_correction' \in OffsetCorrectionSamples
    /\ UNCHANGED kfVars
    /\ UNCHANGED notKf

\* simplifiedKF(current_time) up to the return of getRefinedValues: the
\* locals hold what the stack held, the 14 registers are read (a failed
\* read sets MPU_I2C_ERROR and converts whatever the buffer holds) and the
\* measurements are refined
KfCallBody(times) ==
    /\ kf_pc = "idle"
    /\ kf_calls < MaxKfCalls
    /\ kf_calls' = kf_calls + 1
    /\ kf_entry' = [state |-> state, state_covariance |-> state_covariance,
                    rotated_ang_speed_prev |-> rotated_ang_speed_prev,
                    prev_time |-> prev_time,
                    mpu_state_global |-> mpu_state_global]
    /\ \E t \in times : t >= prev_time /\ current_time' = t
    /\ \E a \in StaleAngles : state_accel' = a
    /\ \E raw \in RawSamples, failed \in BOOLEAN :
          /\ raw_values' = raw
          /\ mpu_state_global' =
                (IF failed THEN MPU_I2C_ERROR ELSE mpu_state_global)
          /\ measurements_funct' =
                Refined(raw, offset_correction, accel_1g_value,
                        gyro_1dps_value)
    /\ kf_pc' = "test"
    /\ UNCHANGED <<accel_1g_value, gyro_1dps_value, filterState,
                   angular_speed_1, delta_time, temp_funct, kf_ret,
                   offset_correction>>

\* a call of simplifiedKF with any time stamp not before the previous one
KfCall ==
    /\ KfCallBody(MillisSamples)
    /\ UNCHANGED notKf

\* if (mpu_state_global != MPU_CORRECT) return state;
KfTest ==
    /\ kf_pc = "test"
    /\ IF StopsFilter(mpu_state_global)
       THEN kf_pc' = "done" /\ kf_ret' = state
       ELSE kf_pc' = "predict" /\ UNCHANGED kf_ret
    /\ UNCHANGED <<accel_1g_value, gyro_1dps_value, filterState, kf_calls,
                   kf_entry, current_time, raw_values, measurements_funct,
                   angular_speed_1, delta_time, state_accel, temp_funct,
                   mpu_state_global, offset_correction>>
    /\ UNCHANGED notKf

\* the prediction: rotate, integrate, and the variance of the prediction
KfPredict ==
    /\ kf_pc = "predict"
    /\ angular_speed_1' = Rotate(measurements_funct, state)
    /\ delta_time' = DeltaTime(current_time, prev_time)
    /\ temp_funct' = Integrate(delta_time', angular_speed_1',
                               rotated_ang_speed_prev)
    /\ state' = <<state[1] + temp_funct'[1], state[2] + temp_funct'[2]>>
    /\ LET p == PredictedCovariance(state_covariance[1], delta_time')
       IN  state_covariance' = <<p, p>>
    /\ kf_pc' = "accel"
    /\ UNCHANGED <<accel_1g_value, gyro_1dps_value, rotated_ang_speed_prev,
                   prev_time, kf_calls, kf_entry, current_time, raw_values,
                   measurements_funct, state_accel, kf_ret,
                   mpu_state_global, offset_correction>>
    /\ UNCHANGED notKf

\* accelState(measurements_funct, state_accel, temp_funct)
KfAccelState ==
    /\ kf_pc = "accel"
    /\ LET out == AccelState(measurements_funct, state_accel, temp_funct[1])
       IN  /\ state_accel' = out.state_pred
           /\ temp_funct' = <<out.accel_cov, temp_funct[2]>>
    /\ kf_pc' = "innovation"
    /\ UNCHANGED <<accel_1g_value, gyro_1dps_value, filterState, kf_calls,
                   kf_entry, current_time, raw_values, measurements_funct,
                   angular_speed_1, delta_time, kf_ret, mpu_state_global,
                   offset_correction>>
    /\ UNCHANGED notKf

\* state_accel[i] -= state[i]
KfInnovation ==
    /\ kf_pc = "innovation"
    /\ state_accel' = <<state_accel[1] - state[1], state_accel[2] - state[2]>>
    /\ kf_pc' = "update"
    /\ UNCHANGED <<accel_1g_value, gyro_1dps_value, filterState, kf_calls,
                   kf_entry, current_time, raw_values, measurements_funct,
                   angular_speed_1, delta_time, temp_funct, kf_ret,
                   mpu_state_global, offset_correction>>
    /\ UNCHANGED notKf

\* the update of both axes, the rates and the timestamp kept for the next
\* call, and the return
KfUpdate ==
    /\ kf_pc = "update"
    /\ LET gain_x == KalmanGain(state_covariance[1], temp_funct[1])
           cov_x  == CovarianceAfter(gain_x, state_covariance[1])
           gain_y == KalmanGain(cov_x, accel_covariance)
           cov_y  == CovarianceAfter(gain_y, state_covariance[2])
       IN  /\ state' = <<state[1] + FMul(gain_x, state_accel[1]),
                         state[2] + FMul(gain_y, state_accel[2])>>
           /\ state_covariance' = <<cov_x, cov_y>>
           /\ temp_funct' = <<gain_y, temp_funct[2]>>
    /\ rotated_ang_speed_prev' = angular_speed_1
    /\ prev_time' = current_time
    /\ kf_ret' = state'
    /\ kf_pc' = "done"
    /\ UNCHANGED <<accel_1g_value, gyro_1dps_value, kf_calls, kf_entry,
                   current_time, raw_values, measurements_funct,
                   angular_speed_1, delta_time, state_accel,
                   mpu_state_global, offset_correction>>
    /\ UNCHANGED notKf

\* the caller has the result
KfReturn ==
    /\ kf_pc = "done"
    /\ kf_pc' = "idle"
    /\ UNCHANGED <<accel_1g_value, gyro_1dps_value, filterState, kf_calls,
                   kf_entry, current_time, raw_values, measurements_funct,
                   angular_speed_1, delta_time, state_accel, temp_funct,
                   kf_ret, mpu_state_global, offset_correction>>
    /\ UNCHANGED notKf

(***************************************************************************)
(* getOffsetCorrection                                                     *)
(***************************************************************************)
\* addresses the linker can give the member offset_correction within the
\* 2 KB of RAM, as the uint16_t the pointer converts to: one away from the
\* address CALIBRATION_CORRECTION_AVERAGES and that address itself
CorrectionAddresses == {700, CALIBRATION_CORRECTION_AVERAGES}

\* what the offset registers hold when getOffsetCorrection is called: the
\* offsets of a loaded record or of calibrate, at the zero crossing of a
\* linear axis, next to it, or unset
DeviceOffsetSamples == {Zeros, Roots, [i \in Axes |-> Roots[i] + 2]}

\* device states at line 388 of initialize_2
CorrectionStateSamples == {MPU_NOT_INITIALIZED, MPU_CORRECT}

GocInit ==
    /\ goc_pc = "start"
    /\ low_ram = StaleValues
    /\ goc_n = 0

\* initialize_2 up to the call of getOffsetCorrection: the offsets are in
\* the device and offset_correction holds zeros or what calibrate recorded
GocPrepare ==
    /\ goc_pc = "start"
    /\ goc_pc' = "ready"
    /\ \E cfg \in SensorConfigs : sensor' = cfg
    /\ mpu_offsets' \in DeviceOffsetSamples
    /\ offset_correction' \in OffsetCorrectionSamples
    /\ mpu_state_global' \in CorrectionStateSamples
    /\ UNCHANGED <<low_ram, goc_n>>
    /\ UNCHANGED notGoc

\* the pointer averages_funct of the calculateAverages call when the
\* arguments follow the order of the parameters, and as line 953 passes them
AveragesPointerInOrder(addr) == addr

AveragesPointer(addr) == CALIBRATION_CORRECTION_AVERAGES

\* number_of_iterations of that call
CorrectionIterations(addr) == addr

\* getOffsetCorrection(): calculateAverages(CALIBRATION_CORRECTION_AVERAGES,
\* offset_correction, targets_funct) against the parameters (averages_funct,
\* number_of_iterations, targets_funct): the constant is the pointer the
\* averages are written through and the address of offset_correction is
\* the number of samples.  addr is the address the build gave the member.
GetOffsetCorrection ==
    /\ goc_pc = "ready"
    /\ goc_pc' = "done"
    /\ \E addr \in CorrectionAddresses, fail \in BOOLEAN :
          /\ goc_n' = CorrectionIterations(addr)
          /\ mpu_state_global' =
                (IF fail THEN MPU_I2C_ERROR ELSE mpu_state_global)
          /\ \E result \in
                   {[i \in Axes |->
                       AxisAverage(sensor[i], RootOf(sensor[i], i),
                                   mpu_offsets[i])]}
                   \cup (IF fail
                            THEN {[i \in Axes |-> Wrap16(0 - targets[i])]}
                            ELSE {}) :
                IF AveragesPointer(addr) = addr
                   THEN offset_correction' = result /\ UNCHANGED low_ram
                   ELSE low_ram' = result /\ UNCHANGED offset_correction
    /\ UNCHANGED <<sensor, mpu_offsets>>
    /\ UNCHANGED notGoc

(***************************************************************************)
(* initializeMeasurements and loop() of the sketch                         *)
(*                                                                         *)
(* The interrupt routine runs between any two statements of loop().  The   *)
(* estimators testGyroEst and testAccelEst keep their own angles; of them  *)
(* the model keeps the read of the device.                                 *)
(***************************************************************************)
LoopInit ==
    /\ im_calls = 0
    /\ lp_pc = "init"
    /\ time_buffer2 = 0
    /\ lp_stamp = 0
    /\ lp_read = 0
    /\ lp_seen = FALSE

\* calls of initializeMeasurements in one behaviour
MaxImCalls == 1

\* interrupts during one call of initializeMeasurements: one ends each of
\* the two waits, and more can arrive during the delay of resetSignalPath
ImSignals == {2, 3}

\* what initializeMeasurements leaves of the angles and of the previous
\* rotated rates when it starts from the origin, and as the code has it
AnglesFromOrigin(angles) == <<0, 0>>

AnglesAfterInitialize(angles) == angles

\* initializeMeasurements(): mpu_data_ready = false; the wait for an
\* interrupt; resetSignalPath(), whose write can fail; mpu_data_ready =
\* false; the wait for the next interrupt; prev_time = time_buffer
InitializeMeasurementsBody ==
    /\ kf_pc = "idle"
    /\ im_calls' = im_calls + 1
    /\ \E k \in ImSignals :
          /\ signals' = signals + k
          /\ overflow' = (overflow \/ k > 2)
    /\ mpu_data_ready' = TRUE
    /\ \E t \in MillisSamples : t >= time_buffer /\ time_buffer' = t
    /\ prev_time' = time_buffer'
    /\ state' = AnglesAfterInitialize(state)
    /\ rotated_ang_speed_prev' =
          AnglesAfterInitialize(rotated_ang_speed_prev)
    /\ mpu_state_global' \in {mpu_state_global, MPU_I2C_ERROR}
    /\ UNCHANGED <<busVars, storeVars, calVars, initVars, testVars, gocVars,
                   av_pc, av_n, av_index, av_ids, av_sum, accel_1g_value,
                   gyro_1dps_value, state_covariance, kf_pc, kf_calls,
                   kf_entry, current_time, raw_values, measurements_funct,
                   angular_speed_1, delta_time, state_accel, temp_funct,
                   kf_ret, time_buffer2, lp_stamp, lp_read, lp_seen>>

\* a call of initializeMeasurements between two calls of simplifiedKF
InitializeMeasurements ==
    /\ im_calls < MaxImCalls
    /\ InitializeMeasurementsBody
    /\ UNCHANGED lp_pc

\* what loop() leaves alone besides its own variables, the two flags and
\* the device state
notLoop == <<busVars, storeVars, calVars, initVars, testVars, gocVars,
             kfVars, time_buffer, signals, av_pc, av_n, av_index, av_ids,
             av_sum, im_calls>>

\* test.initializeMeasurements() at the head of loop()
LoopInitialize ==
    /\ lp_pc = "init"
    /\ lp_pc' = "test"
    /\ InitializeMeasurementsBody

\* if (mpu_data_ready)
LoopTest ==
    /\ lp_pc = "test"
    /\ lp_pc' = IF mpu_data_ready THEN "check1" ELSE "ovtest"
    /\ UNCHANGED <<mpu_state_global, mpu_data_ready, overflow, time_buffer2,
                   lp_stamp, lp_read, lp_seen>>
    /\ UNCHANGED notLoop

\* if (test.mpu_state_global != MPU_CORRECT) error(10), before and after
\* the estimators; error() does not return
LoopCheck ==
    /\ \/ lp_pc = "check1"
       \/ lp_pc = "kfret" /\ kf_pc = "idle"
    /\ lp_pc' = IF mpu_state_global # MPU_CORRECT THEN "halt"
                ELSE IF lp_pc = "check1" THEN "time" ELSE "reset"
    /\ UNCHANGED <<mpu_state_global, mpu_data_ready, overflow, time_buffer2,
                   lp_stamp, lp_read, lp_seen>>
    /\ UNCHANGED notLoop

\* time_buffer2 = time_buffer
LoopTime ==
    /\ lp_pc = "time"
    /\ lp_pc' = "gyro"
    /\ time_buffer2' = time_buffer
    /\ lp_stamp' = signals
    /\ UNCHANGED <<mpu_state_global, mpu_data_ready, overflow, lp_read,
                   lp_seen>>
    /\ UNCHANGED notLoop

\* test.testGyroEst(time_buffer2) and test.testAccelEst(time_buffer2): each
\* reads the device, and a failed read sets MPU_I2C_ERROR
LoopEstimator ==
    /\ lp_pc \in {"gyro", "accel"}
    /\ lp_pc' = IF lp_pc = "gyro" THEN "accel" ELSE "kf"
    /\ mpu_state_global' \in {mpu_state_global, MPU_I2C_ERROR}
    /\ UNCHANGED <<mpu_data_ready, overflow, time_buffer2, lp_stamp, lp_read,
                   lp_seen>>
    /\ UNCHANGED notLoop

\* test.simplifiedKF(time_buffer2) up to the return of getRefinedValues,
\* which reads the sample the latest interrupt announced
LoopSimplifiedKF ==
    /\ lp_pc = "kf"
    /\ lp_pc' = "kfret"
    /\ KfCallBody({time_buffer2})
    /\ lp_read' = signals
    /\ UNCHANGED <<busVars, storeVars, cal_pc, sensor, mpu_offsets,
                   offsets_funct, low_offsets, high_offsets, low_values,
                   high_values, averages, count, done, use_max_iterations,
                   max_difference, cal_ret, br_iters, bi_iters, set_failed,
                   avg_failed, sets_after, avgs_after, int_wraps, samples,
                   narrowed, initVars, avgVars, testVars, gocVars, im_calls,
                   time_buffer2, lp_stamp, lp_seen>>

\* mpu_data_ready = false, and the prints
LoopReset ==
    /\ lp_pc = "reset"
    /\ lp_pc' = "ovtest"
    /\ mpu_data_ready' = FALSE
    /\ UNCHANGED <<mpu_state_global, overflow, time_buffer2, lp_stamp,
                   lp_read, lp_seen>>
    /\ UNCHANGED notLoop

\* if (overflow) digitalWrite(13, HIGH)
LoopOverflowTest ==
    /\ lp_pc = "ovtest"
    /\ lp_pc' = "ovclear"
    /\ lp_seen' = overflow
    /\ UNCHANGED <<mpu_state_global, mpu_data_ready, overflow, time_buffer2,
                   lp_stamp, lp_read>>
    /\ UNCHANGED notLoop

\* overflow = false
LoopOverflowClear ==
    /\ lp_pc = "ovclear"
    /\ lp_pc' = "test"
    /\ overflow' = FALSE
    /\ UNCHANGED <<mpu_state_global, mpu_data_ready, time_buffer2, lp_stamp,
                   lp_read, lp_seen>>
    /\ UNCHANGED notLoop

(***************************************************************************)
(* Specifications                                                          *)
(***************************************************************************)
NextBus ==
    \/ CallRead
    \/ CallWrite
    \/ CallUpdate
    \/ ReadAttempt
    \/ ReadExhausted
    \/ WriteAttempt
    \/ WriteReadback
    \/ WriteExhausted
    \/ UpdateAfterRead
    \/ UpdateAfterWrite
    \/ Return
    \/ BusReset

InitBus ==
    /\ mpu_state_global = MPU_NOT_INITIALIZED
    /\ BusInit
    /\ StoreInit
    /\ CalInit
    /\ SketchInit
    /\ AvgInit
    /\ TestInit
    /\ KfInit
    /\ GocInit
    /\ LoopInit

SpecBus == InitBus /\ [][NextBus]_vars

NextStore ==
    \/ CallSave
    \/ SaveSigOpen
    \/ SavePayloadByte
    \/ SaveSigClose
    \/ SaveReturn
    \/ PowerLoss
    \/ Load

InitStore ==
    /\ mpu_state_global = MPU_NOT_INITIALIZED
    /\ BusInit
    /\ StoreInit
    /\ CalInit
    /\ SketchInit
    /\ AvgInit
    /\ TestInit
    /\ KfInit
    /\ GocInit
    /\ LoopInit

SpecStore == InitStore /\ [][NextStore]_vars

\* a pass of one of the three retry loops in which the medium takes the
\* value, so that the read-back matches and the loop is left
MediumAccepts ==
    \/ SaveSigOpen /\ sv_pc' = "payload"
    \/ SavePayloadByte /\ sv_j' = sv_j + 1
    \/ SaveSigClose /\ sv_pc' = "done"

\* The store with a medium that, written again and again, eventually takes
\* each value; the processor keeps running the save it has begun.
SpecStoreFair ==
    /\ InitStore
    /\ [][NextStore]_vars
    /\ SF_vars(MediumAccepts)
    /\ WF_vars(SaveSigOpen \/ SavePayloadByte \/ SaveSigClose)
    /\ WF_vars(SaveReturn)

NextCal ==
    \/ CallCalibrate
    \/ BracketSetLow
    \/ BracketAvgLow
    \/ BracketSetHigh
    \/ BracketAvgHigh
    \/ BracketCheck
    \/ BisectSet
    \/ BisectAvg
    \/ BisectCheck
    \/ Select
    \/ CalReturn

\* calibrate runs inside initialize_2, which calls performCalibration only
\* while mpu_state_global is MPU_NOT_CALIBRATED
InitCal ==
    /\ mpu_state_global = MPU_NOT_CALIBRATED
    /\ BusInit
    /\ StoreInit
    /\ CalInit
    /\ SketchInit
    /\ AvgInit
    /\ TestInit
    /\ KfInit
    /\ GocInit
    /\ LoopInit

SpecCal == InitCal /\ [][NextCal]_vars

NextAvg ==
    \/ MpuDataReady
    \/ CallCalculateAverages
    \/ AvgLoopTest
    \/ AvgWait
    \/ AvgRead
    \/ AvgReset
    \/ AvgReturn

\* calibrate calls calculateAverages while mpu_state_global is
\* MPU_NOT_CALIBRATED
InitAvg ==
    /\ mpu_state_global = MPU_NOT_CALIBRATED
    /\ BusInit
    /\ StoreInit
    /\ CalInit
    /\ SketchInit
    /\ AvgInit
    /\ TestInit
    /\ KfInit
    /\ GocInit
    /\ LoopInit

SpecAvg == InitAvg /\ [][NextAvg]_vars

NextTest ==
    \/ CallCheckMpu
    \/ TestConfigure
    \/ TestRead
    \/ TestAccelAxis
    \/ TestGyroAxis
    \/ TestReturn

InitTest ==
    /\ mpu_state_global = MPU_NOT_INITIALIZED
    /\ BusInit
    /\ StoreInit
    /\ CalInit
    /\ SketchInit
    /\ AvgInit
    /\ TestInit
    /\ KfInit
    /\ GocInit
    /\ LoopInit

SpecTest == InitTest /\ [][NextTest]_vars

NextFilter ==
    \/ KfPrepare
    \/ KfCall
    \/ KfTest
    \/ KfPredict
    \/ KfAccelState
    \/ KfInnovation
    \/ KfUpdate
    \/ KfReturn

InitFilter ==
    /\ mpu_state_global = MPU_NOT_INITIALIZED
    /\ BusInit
    /\ StoreInit
    /\ CalInit
    /\ SketchInit
    /\ AvgInit
    /\ TestInit
    /\ KfStateInit
    /\ GocInit
    /\ LoopInit
    /\ \E build \in Builds :
          accel_1g_value = build[1] /\ gyro_1dps_value = build[2]

SpecFilter == InitFilter /\ [][NextFilter]_vars

\* the filter with a call of initializeMeasurements before, between or
\* after the calls of simplifiedKF
NextSession ==
    \/ NextFilter
    \/ InitializeMeasurements

SpecSession == InitFilter /\ [][NextSession]_vars

NextCorrection ==
    \/ GocPrepare
    \/ GetOffsetCorrection

InitCorrection ==
    /\ mpu_state_global = MPU_NOT_INITIALIZED
    /\ BusInit
    /\ StoreInit
    /\ CalInit
    /\ SketchInit
    /\ AvgInit
    /\ TestInit
    /\ KfInit
    /\ GocInit
    /\ LoopInit

SpecCorrection == InitCorrection /\ [][NextCorrection]_vars

\* loop() of the sketch with the interrupt routine; setup() has returned
\* with the device initialized
NextLoop ==
    \/ MpuDataReady
    \/ LoopInitialize
    \/ LoopTest
    \/ LoopCheck
    \/ LoopTime
    \/ LoopEstimator
    \/ LoopSimplifiedKF
    \/ KfTest
    \/ KfPredict
    \/ KfAccelState
    \/ KfInnovation
    \/ KfUpdate
    \/ KfReturn
    \/ LoopReset
    \/ LoopOverflowTest
    \/ LoopOverflowClear

InitLoop ==
    /\ mpu_state_global = MPU_CORRECT
    /\ BusInit
    /\ StoreInit
    /\ CalInit
    /\ SketchInit
    /\ AvgInit
    /\ TestInit
    /\ KfInit
    /\ GocInit
    /\ LoopInit

SpecLoop == InitLoop /\ [][NextLoop]_vars

Next ==
    \/ CallInitialize1
    \/ I1ReadId
    \/ I1Wake
    \/ I1CheckMpu
    \/ I1Configure
    \/ CallCheckCalibration
    \/ CcGetTemperature
    \/ CcLoad
    \/ CcSetOffsets
    \/ CallInitialize2
    \/ I2Entry
    \/ I2PrepareCalibration
    \/ CallPerformCalibration
    \/ PcCalibrate
    \/ PcApply
    \/ I2ConfigureAfterCalibration
    \/ I2Filter
    \/ I2Correction
    \/ I2Final
    \/ CallGetOffsetCorrection
    \/ CallSimplifiedKF
    \/ PowerOn

Init ==
    /\ mpu_state_global = MPU_NOT_INITIALIZED
    /\ BusInit
    /\ StoreInit
    /\ CalInit
    /\ SketchInit
    /\ AvgInit
    /\ TestInit
    /\ KfInit
    /\ GocInit
    /\ LoopInit

Spec == Init /\ [][Next]_vars

(***************************************************************************)
(* Properties of the register access layer (SpecBus)                       *)
(***************************************************************************)

C2_VerifiedWrite ==
    wr_check =>
        /\ wr_writes <= 6
        /\ (wr_pc = "done" /\ wr_ret) => wr_matched
        /\ (wr_pc = "done" /\ ~wr_ret) =>
              /\ wr_writes = 6
              /\ ~wr_matched
              /\ mpu_state_global = MPU_I2C_ERROR

\* a verified write succeeded on a later attempt, after an earlier attempt
\* of the same call had not been verified
C2_Witness ==
    /\ op = "write" /\ wr_pc = "done" /\ wr_check
    /\ wr_ret /\ wr_writes > 1 /\ wr_matched

\* C3: when the initial read of updateMpuRegister fails, the call returns
\* false and no bus write has been issued.
C3_UpdateFailsClosed ==
    (op = "update" /\ up_pc \in {"write", "done"} /\ ~up_read_ok) =>
        /\ up_pc = "done"
        /\ up_ret = FALSE
        /\ n_writes = 0
        /\ wr_pc = "idle"

\* an update whose initial read failed has returned
C3_Witness ==
    op = "update" /\ up_pc = "done" /\ ~up_read_ok /\ rd_attempts = 5

(***************************************************************************)
(* Properties of the calibration store (SpecStore)                         *)
(***************************************************************************)

\* C6: a saveOnEEPROM(offsets, temperature) that ran to completion, followed
\* by loadFromEEPROM, reports valid and returns exactly the six offsets and
\* the temperature that were saved.
C6_SaveLoadRoundTrip ==
    (sv_last = "complete" /\ sv_pc = "idle" /\ ld_done) =>
        /\ ld_valid
        /\ ld_offsets = sv_offsets
        /\ ld_temp = sv_temp

\* a completed save of offsets with negative, extreme and high-byte-only
\* values and of a negative temperature has been loaded
C6_Witness ==
    /\ sv_last = "complete" /\ sv_pc = "idle" /\ ld_done
    /\ sv_offsets = <<-1, 256, -32768, 32767, 1, -2>>
    /\ sv_temp = -2034780

\* C7: a save cut after the provisional signature was written and before the
\* complete one leaves the store loading as invalid; the save moves past a
\* payload byte only once its cell holds the byte written to it, so the
\* complete signature is written only once all 16 payload cells do; a load
\* that reports valid returns the record of one single save.
C7_PowerLossSafe ==
    /\ (sv_last = "cut" /\ sv_pc = "idle") =>
          /\ ~SignatureAccepted(eeprom[MPU_EEPROM_OFFSET_ADDRESS])
          /\ ld_done => ~ld_valid
    /\ (sv_pc \in {"payload", "sig_close", "done"}) =>
          \A j \in 0 .. (PayloadLength - 1) :
             (sv_pc = "payload" => j < sv_j) =>
                eeprom[MPU_EEPROM_OFFSET_ADDRESS + 1 + j]
                   = PayloadByte(sv_offsets, sv_temp, j)
    /\ (ld_done /\ ld_valid) =>
          /\ committed # <<>>
          /\ ld_offsets = committed[1]
          /\ ld_temp = committed[2]

\* a second save was cut while its payload was half written over the record
\* of a completed first save, and the store was loaded afterwards
C7_Witness ==
    /\ sv_last = "cut" /\ sv_pc = "idle" /\ ld_done /\ ~ld_valid
    /\ committed # <<>>
    /\ sv_count = 2
    /\ eeprom[MPU_EEPROM_OFFSET_ADDRESS + 1]
           # eeprom[MPU_EEPROM_OFFSET_ADDRESS + 12]

\* C8: loadFromEEPROM reports valid exactly when the signature byte equals
\* 0xDD; for every other signature it reports invalid and leaves its offset
\* and temperature outputs as they were.
C8_LoadValidIffComplete ==
    [][Load =>
         /\ ld_valid' = (eeprom[MPU_EEPROM_OFFSET_ADDRESS] = 221)
         /\ (eeprom[MPU_EEPROM_OFFSET_ADDRESS] # 221) =>
               UNCHANGED <<ld_offsets, ld_temp>>]_vars

\* a store whose signature shares only the high nibble with 0xDD (the
\* provisional 0xD0) has been loaded
C8_Witness ==
    /\ ld_done /\ ~ld_valid
    /\ eeprom[MPU_EEPROM_OFFSET_ADDRESS] = 208
    /\ ld_offsets = StaleOffsets /\ ld_temp = StaleTemp

\* C28: saveOnEEPROM repeats the write of a byte until the byte reads back
\* equal and only then goes on to the next byte; with a medium that
\* eventually takes each value, every save that is begun comes to its end
\* (or is cut by a loss of power).
C28_SaveTerminates ==
    /\ [][(sv_pc = "sig_open" /\ sv_pc' = "payload")
             => eeprom'[MPU_EEPROM_OFFSET_ADDRESS] = SignatureWriting]_vars
    /\ [][(sv_pc = "payload" /\ sv_j' # sv_j /\ sv_pc' # "idle")
             => /\ sv_j' = sv_j + 1
                /\ eeprom'[MPU_EEPROM_OFFSET_ADDRESS + 1 + sv_j]
                      = PayloadByte(sv_offsets, sv_temp, sv_j)]_vars
    /\ [][(sv_pc = "sig_close" /\ sv_pc' = "done")
             => eeprom'[MPU_EEPROM_OFFSET_ADDRESS] = SignatureComplete]_vars
    /\ (sv_pc \in {"sig_open", "payload", "sig_close"})
          ~> (sv_pc = "done" \/ sv_last \in {"cut", "cut_early"})

\* a second save has come to its end over the record of the first, with
\* every byte of its payload in place
C28_Witness ==
    /\ sv_pc = "done"
    /\ sv_count = 2
    /\ committed # <<>>
    /\ sv_last = "complete"
    /\ eeprom = SavedRecord(sv_offsets, sv_temp)
    /\ sv_offsets # Zeros

(***************************************************************************)
(* Properties of calibrate (SpecCal)                                       *)
(***************************************************************************)

\* C9: with an averaged output that is constant-positive or
\* constant-negative on every axis and no bus failure, calibrate ends after
\* exactly CALIBRATION_MAX_ITERATIONS (100) passes of the range search, with
\* mpu_state_global = MPU_CALIBRATION_ERROR and the return value false.
\* Does not hold: count++ > CALIBRATION_MAX_ITERATIONS lets 102 passes run.
C9_StopsAtIterationCap ==
    (cal_pc = "done" /\ sensor \in NeverBracketable
        /\ ~set_failed /\ ~avg_failed) =>
        /\ br_iters = CALIBRATION_MAX_ITERATIONS
        /\ bi_iters = 0
        /\ mpu_state_global = MPU_CALIBRATION_ERROR
        /\ cal_ret = FALSE

\* C10: once a read of an averaging pass has raised the I2C error, calibrate
\* begins no further averaging pass and no further setOffsets before it
\* returns false.
\* Does not hold: the state is tested at the end of a pass only, after the
\* second setOffsets and the second averaging pass of the pass.
C10_AbortsAtOnce ==
    avg_failed =>
        /\ sets_after = 0
        /\ avgs_after = 0
        /\ cal_pc = "done" => cal_ret = FALSE

\* the sensor is linear on every axis
LinearSensor == \A i \in Axes : sensor[i] \in LinearKinds

\* the average the sensor gives on axis i at the given offset
AverageAt(i, offset) == AxisAverage(sensor[i], RootOf(sensor[i], i), offset)

\* C11: with a linear sensor on every axis (zero crossing within the offsets
\* that steps of 1000 reach) and no bus failure, the range search is left
\* within CALIBRATION_MAX_ITERATIONS passes, toward the second loop, and at
\* that moment every axis has a low offset whose recorded average is
\* non-positive, a high offset whose recorded average is non-negative, and
\* low offset <= high offset; the recorded averages are those of the sensor
\* at these offsets.
C11_BracketFound ==
    [][(cal_pc = "br_check" /\ cal_pc' # "br_setlow" /\ LinearSensor
           /\ mpu_state_global # MPU_I2C_ERROR)
          => /\ br_iters' <= CALIBRATION_MAX_ITERATIONS
             /\ cal_pc' = "bi_set"
             /\ \A i \in Axes :
                   /\ low_values'[i] <= 0
                   /\ high_values'[i] >= 0
                   /\ low_offsets'[i] <= high_offsets'[i]
                   /\ low_values'[i] = AverageAt(i, low_offsets'[i])
                   /\ high_values'[i] = AverageAt(i, high_offsets'[i])]_vars

C11_Witness ==
    /\ cal_pc = "bi_set" /\ bi_iters = 0
    /\ sensor = EdgeLinear
    /\ mpu_state_global # MPU_I2C_ERROR
    /\ br_iters = 33
    /\ low_offsets[2] = -32000 /\ high_offsets[1] = 32000
    /\ low_values[2] = -1 /\ high_values[1] = 1

\* the width of the range of axis i, and the widest of the six
WidthOf(low, high, i) == high[i] - low[i]

WidestOf(low, high) ==
    CHOOSE w \in {WidthOf(low, high, i) : i \in Axes} :
       \A i \in Axes : WidthOf(low, high, i) <= w

\* C12: every iteration of the second loop that starts with the widest
\* range wider than CALIBRATION_MIN_ERROR (1) ends with a strictly smaller
\* widest range, and the range of no axis grows.
\* Does not hold: low_offsets + high_offsets is a 16-bit sum; past 32767 the
\* middle point lands outside the range and becomes one of its ends.
C12_BisectionNarrows ==
    [][(cal_pc = "bi_avg" /\ cal_pc' = "bi_check"
           /\ WidestOf(low_offsets, high_offsets) > CALIBRATION_MIN_ERROR)
          => /\ WidestOf(low_offsets', high_offsets')
                   < WidestOf(low_offsets, high_offsets)
             /\ \A i \in Axes :
                   WidthOf(low_offsets', high_offsets', i)
                      <= WidthOf(low_offsets, high_offsets, i)]_vars

\* C13: when calibrate finishes, on every axis the final offset is the end
\* of the range (low or high) whose recorded average has the smaller
\* absolute value, and offset_correction of the axis is that average.
\* Does not hold: the test is -low_value <= high_value, which prefers the
\* low end whenever both recorded averages are positive.
C13_SelectsSmallerAbs ==
    [][(cal_pc = "select" /\ cal_pc' = "done")
          => \A i \in Axes :
                \/ /\ Abs(low_values[i]) <= Abs(high_values[i])
                   /\ offsets_funct'[i] = low_offsets[i]
                   /\ offset_correction'[i] = low_values[i]
                \/ /\ Abs(high_values[i]) <= Abs(low_values[i])
                   /\ offsets_funct'[i] = high_offsets[i]
                   /\ offset_correction'[i] = high_values[i]]_vars

\* C14: a pass of the second loop averages CALIBRATION_INITIAL_AVERAGES
\* (1000) samples as long as no earlier pass of the call has ended with the
\* widest range at most CALIBRATION_INITIAL_ERROR (5), and
\* CALIBRATION_AVERAGES (10000) samples in every pass after such a pass; the
\* number never goes back to 1000 within the call.
\* Does not hold: the width is kept in an int16_t; a range wider than 32767
\* counts as negative, so the widest range is taken to be that of another
\* axis.
C14_SampleSchedule ==
    [][/\ (cal_pc = "bi_avg" /\ cal_pc' = "bi_check")
            => samples' = IF narrowed THEN CALIBRATION_AVERAGES
                                      ELSE CALIBRATION_INITIAL_AVERAGES
       /\ (cal_pc' = "bi_avg" /\ samples = CALIBRATION_AVERAGES
             /\ cal_pc \in {"bi_set", "bi_avg"})
            => samples' = CALIBRATION_AVERAGES]_vars

(***************************************************************************)
(* Properties of calculateAverages (SpecAvg)                               *)
(***************************************************************************)

\* C15: a calculateAverages call with N iterations reads exactly N samples;
\* every sample it reads was announced by a data-ready interrupt of its own
\* (the interrupt numbers of the samples read grow strictly, so no two
\* reads share a signal), and when the call returns at least N interrupts
\* have been raised and consumed.
C15_RateBound ==
    /\ Len(av_ids) <= av_n
    /\ Len(av_ids) <= signals
    /\ \A k \in 1 .. Len(av_ids) :
          /\ av_ids[k] >= 1
          /\ k > 1 => av_ids[k] > av_ids[k - 1]
    /\ av_pc = "done" =>
          /\ Len(av_ids) = av_n
          /\ av_index = av_n
          /\ signals >= av_n

C15_Witness ==
    /\ av_pc = "done"
    /\ av_n = 3
    /\ av_ids = <<1, 3, 5>>
    /\ overflow

\* C27: a run of the data-ready interrupt routine that finds mpu_data_ready
\* still set sets overflow; every run leaves mpu_data_ready set and changes
\* nothing but mpu_data_ready, overflow and time_buffer: the device state,
\* the FilterState, the offsets and the locals of the interrupted
\* calculateAverages call stay as they are, wherever in the sampling loop
\* the routine runs.
C27_OverflowRaised ==
    [][(signals' = signals + 1)
          => /\ mpu_data_ready => overflow'
             /\ mpu_data_ready'
             /\ UNCHANGED <<mpu_state_global, busVars, storeVars, calVars,
                            initVars, testVars, kfVars, gocVars, loopVars,
                            av_pc,
                            av_n, av_index, av_ids, av_sum>>
      ]_vars

\* the routine has run twice before the sampling loop took the first
\* sample
C27_Witness ==
    /\ av_pc # "idle"
    /\ av_ids = <<>>
    /\ signals = 2
    /\ mpu_data_ready
    /\ overflow
    /\ time_buffer = 1500

(***************************************************************************)
(* Properties of the initialization sequence (Spec)                        *)
(***************************************************************************)
StickyStates ==
    {MPU_I2C_ERROR} \cup {MPU_SELF_TEST_FAILED_BASE + i : i \in 0 .. 5}

\* C4: once mpu_state_global is MPU_I2C_ERROR or a self-test failure code,
\* no step of the initialization sequence and no public operation changes
\* it; only a new start (power-on) does.
\* Does not hold: checkCalibration assigns MPU_NOT_CALIBRATED over an I2C
\* error raised by its own temperature read.
C4_ErrorStateSticky ==
    [][(mpu_state_global \in StickyStates /\ ~PowerOn)
          => mpu_state_global' = mpu_state_global]_vars

\* C5: whenever mpu_state_global is MPU_CORRECT, since power-on the
\* self-test has passed in an initialize_1 and the calibration has been
\* resolved (a valid stored record was applied, or calibrate succeeded).
\* Does not hold: initialize_2 called first finds MPU_NOT_INITIALIZED and
\* sets MPU_CORRECT.
C5_CorrectOnlyAfterSelfTestAndCalibration ==
    mpu_state_global = MPU_CORRECT => (self_test_passed /\ cal_resolved)

\* C16: checkCalibration accepts the loaded record exactly when the record
\* is valid and |current temperature - stored temperature| < 25 degrees (a
\* difference of exactly 25 is rejected).  When it accepts, setOffsets is
\* called with the stored offsets and mpu_state_global is not set to
\* MPU_NOT_CALIBRATED; when there is no valid record or the record is
\* stale, no offset register is written and mpu_state_global becomes
\* MPU_NOT_CALIBRATED.  (A power-on in the middle of the call ends it.)
C16_RecordValidity ==
    [][/\ (pc = "cc_load" /\ ~PowerOn) =>
             LET valid == SignatureAccepted(eeprom[MPU_EEPROM_OFFSET_ADDRESS])
                 near  == Abs(cur_temp - LoadedTemp(eeprom))
                             < CALIBRATION_MAX_TEMP_DIFF * TempUnit
             IN  /\ (pc' = "cc_set") <=> (valid /\ near)
                 /\ pc' = "cc_set" => mpu_state_global' = mpu_state_global
                 /\ pc' # "cc_set" =>
                       /\ mpu_state_global' = MPU_NOT_CALIBRATED
                       /\ pc' = "idle"
                       /\ called_by = "top" => ~op_ret'
                       /\ ~cc_wrote'
                       /\ mpu_offsets' = mpu_offsets
       /\ (pc = "cc_set" /\ ~PowerOn) =>
             /\ cc_wrote'
             /\ mpu_state_global' \in {mpu_state_global, MPU_I2C_ERROR}
             /\ mpu_state_global' # MPU_I2C_ERROR =>
                   mpu_offsets' = LoadedOffsets(eeprom)]_vars

C16_Witness ==
    /\ pc = "idle"
    /\ last_op = "checkCalibration"
    /\ SignatureAccepted(eeprom[MPU_EEPROM_OFFSET_ADDRESS])
    /\ cur_temp - LoadedTemp(eeprom) = CALIBRATION_MAX_TEMP_DIFF * TempUnit
    /\ mpu_state_global = MPU_NOT_CALIBRATED
    /\ ~cc_wrote
    /\ ~op_ret

\* C29: when initialize_1 is called with mpu_state_global = MPU_I2C_ERROR
\* left by an earlier attempt and is followed by initialize_2, every bus
\* call of the two succeeds, the self-test passes and the calibration does
\* not end with MPU_CALIBRATION_ERROR, then each of the two calls returns
\* true and initialize_2 leaves MPU_CORRECT.
\* Does not hold: nothing in initialize_1 clears MPU_I2C_ERROR, so the test
\* after configureMpu finds the old error and initialize_1 returns false.
C29_RecoveryByReinit ==
    [][(/\ last_op \in {"initialize_1", "initialize_2"}
        /\ pc # "idle" /\ pc' = "idle" /\ ~PowerOn
        /\ seq_entry = MPU_I2C_ERROR
        /\ seq_clean'
        /\ self_test_passed'
        /\ mpu_state_global' # MPU_CALIBRATION_ERROR)
          => /\ op_ret'
             /\ last_op = "initialize_2" => mpu_state_global' = MPU_CORRECT
      ]_vars

\* C30: whenever initialize_2 returns, it returns true exactly when
\* mpu_state_global is MPU_CORRECT at that moment, whatever the state at
\* entry and whatever was called before.
\* Does not hold: a second initialize_2 after a successful one finds
\* MPU_CORRECT, which is not MPU_NOT_INITIALIZED, and returns false with the
\* state left at MPU_CORRECT.
C30_SuccessIffCorrect ==
    [][(last_op = "initialize_2" /\ pc # "idle" /\ pc' = "idle" /\ ~PowerOn)
          => (op_ret' <=> mpu_state_global' = MPU_CORRECT)]_vars

(***************************************************************************)
(* Properties of checkMpu (SpecTest)                                       *)
(***************************************************************************)

\* self_test of the axis with index k in the order Ax, Ay, Az, Gx, Gy, Gz,
\* as checkMpu assembles it
AxisSelfTest(k) ==
    IF k < 3 THEN AccelSelfTest(values_raw, stack_byte, k)
    ELSE GyroSelfTest(values_raw, k - 3)

\* |100 * (self_test - factory_trimmed) / factory_trimmed| exceeds the
\* threshold (trim in hundredths)
Deviates(st, trim) ==
    Abs(100 * (100 * st - trim)) > MPU_SELF_TEST_THRESHOLD * Abs(trim)

\* the axes whose deviation exceeds the threshold
DeviatingAxes ==
    {k \in 0 .. 5 :
        Deviates(AxisSelfTest(k), FactoryTrimmed(k, AxisSelfTest(k)))}

\* C17: the axes are evaluated in the order Ax, Ay, Az, Gx, Gy, Gz; at the
\* first axis whose deviation exceeds the threshold checkMpu sets
\* mpu_state_global to MPU_SELF_TEST_FAILED_BASE + (index of the axis),
\* returns false and evaluates no later axis; with no such axis it
\* evaluates all six and returns true.
\* Does not hold: no axis is ever reported, since the value compared with
\* the threshold is 100 * self_test / factory_trimmed.
C17_FailFast ==
    (st_pc = "done" /\ st_codes # <<>>) =>
        IF DeviatingAxes = {}
           THEN st_ret /\ Len(st_codes) = 6
           ELSE LET first == CHOOSE k \in DeviatingAxes :
                                \A j \in DeviatingAxes : k <= j
                IN  /\ mpu_state_global = MPU_SELF_TEST_FAILED_BASE + first
                    /\ ~st_ret
                    /\ Len(st_codes) = first + 1

\* C18: the self_test of accelerometer axis i is the 5-bit number made of
\* the top 3 bits of values_raw[i] and the 2 bits of values_raw[3] that
\* belong to the axis (bits 5-4, 3-2, 1-0 for i = 0, 1, 2); the self_test
\* of gyroscope axis i is the low 5 bits of values_raw[i]; each lies in
\* 0 .. 31.
\* Does not hold: the accelerometer value is (values_raw[i] >> 3) or-ed
\* with the unshifted bits of values_raw[3].
C18_Decoding ==
    \A n \in 1 .. Len(st_codes) :
       LET k == n - 1
       IN  /\ st_codes[n] \in 0 .. 31
           /\ st_codes[n] =
                 IF k < 3
                    THEN (4 * (values_raw[k] \div 32))
                            + ((stack_byte \div Pow2(4 - 2 * k)) % 4)
                    ELSE values_raw[k - 3] % 32

\* C19: checkMpu switches accelerometer and gyroscope to the self-test
\* configuration, then reads 4 bytes from the self-test registers, and
\* every byte used to assemble a self_test (values_raw[0 .. 3]) was
\* obtained by that read.
\* Does not hold: 3 bytes are read into values_raw[3], and values_raw[3]
\* lies behind the array.
C19_Protocol ==
    st_read_len > 0 =>
        /\ st_configured
        /\ st_read_len = 4
        /\ st_codes # <<>> =>
              /\ \A k \in 0 .. 2 : values_raw[k] = test_regs[k]
              /\ stack_byte = test_regs[3]

\* C20: an axis fails the self-test exactly when
\* |100 * (self_test - factory_trimmed) / factory_trimmed| exceeds
\* MPU_SELF_TEST_THRESHOLD (14), nothing else being added to the value.
\* Does not hold: checkMpu compares 100 + 100 * (self_test -
\* factory_trimmed) / factory_trimmed.
C20_Threshold ==
    \A n \in 1 .. Len(st_codes) :
       LET failed == st_pc = "done" /\ ~st_ret /\ n = Len(st_codes)
       IN  failed <=>
              Deviates(st_codes[n], FactoryTrimmed(n - 1, st_codes[n]))

(***************************************************************************)
(* Properties of the angle filter (SpecFilter)                             *)
(***************************************************************************)
\* the FilterState is what it was when simplifiedKF was called
FilterStateKept ==
    /\ state = kf_entry.state
    /\ state_covariance = kf_entry.state_covariance
    /\ rotated_ang_speed_prev = kf_entry.rotated_ang_speed_prev
    /\ prev_time = kf_entry.prev_time

\* C21: a call of simplifiedKF made while mpu_state_global is not
\* MPU_CORRECT never enters the prediction, leaves both angles, both
\* variances, both previous rotated rates and the previous timestamp as they
\* were at the call, and returns the angles of before the call.
C21_DegenerateEntry ==
    kf_entry.mpu_state_global # MPU_CORRECT
       => /\ kf_pc \in {"idle", "test", "done"}
          /\ FilterStateKept
          /\ (kf_calls > 0 /\ kf_pc \in {"done", "idle"})
                => kf_ret = kf_entry.state

\* a call made on a bus error returns with a FilterState that earlier calls
\* have moved away from zero
C21_Witness ==
    /\ kf_pc = "done"
    /\ kf_entry.mpu_state_global = MPU_I2C_ERROR
    /\ state[1] # 0
    /\ state_covariance[1] > 0
    /\ state_covariance[2] > 0
    /\ rotated_ang_speed_prev[1] # 0
    /\ prev_time > 0
    /\ current_time > prev_time
    /\ kf_ret = state

\* C22: in the update of a fusion step each axis has the gain
\* p / (p + r), p its own predicted variance and r the accelerometer
\* variance of this step, moves its angle by gain * (accelerometer angle -
\* predicted angle) and multiplies its variance by 1 - gain; the gain of the
\* y axis does not depend on the variance of the x axis.
C22_PerAxisFusion ==
    [][(kf_pc = "update" /\ kf_pc' = "done")
          => \A i \in {1, 2} :
                LET gain == FDiv(state_covariance[i],
                                 state_covariance[i] + temp_funct[1])
                IN  /\ state'[i] = state[i] + FMul(gain, state_accel[i])
                    /\ state_covariance'[i] =
                          FMul(Fix(1) - gain, state_covariance[i])
      ]_vars

\* the refined accelerations have magnitude zero
ZeroMagnitude ==
    Sqrt((Square(measurements_funct[1]) + Square(measurements_funct[2]))
            + Square(measurements_funct[3])) = 0

\* C23: when the refined accelerations have magnitude exactly zero,
\* accelState leaves the accelerometer angle 0 on both axes and the
\* measurement variance 1000, whatever its output arguments held before.
C23_ZeroMagnitudeFault ==
    [][(kf_pc = "accel" /\ kf_pc' = "innovation" /\ ZeroMagnitude)
          => /\ state_accel' = <<0, 0>>
             /\ temp_funct'[1] = ACCEL_FAULT_COVARIANCE
      ]_vars

\* C24: in a fusion step whose timestamp equals the previous timestamp the
\* prediction leaves both angles as they were and, on each axis, gives a
\* predicted variance that is not larger than the variance of that axis
\* before the step.
C24_ZeroElapsedTime ==
    [][(kf_pc = "predict" /\ kf_pc' = "accel" /\ current_time = prev_time)
          => /\ state' = state
             /\ \A i \in {1, 2} : state_covariance'[i] <= state_covariance[i]
      ]_vars

\* C25: both variances of the FilterState are non-negative in every
\* reachable state, within a fusion step and after any number of them.
C25_VarianceNonNegative ==
    /\ state_covariance[1] >= 0
    /\ state_covariance[2] >= 0

\* a second fusion step has updated variances that were positive, after a
\* step of 1.5 s in all
C25_Witness ==
    /\ kf_pc = "done"
    /\ kf_calls >= 2
    /\ kf_entry.mpu_state_global = MPU_CORRECT
    /\ mpu_state_global = MPU_CORRECT
    /\ kf_entry.state_covariance[1] > 0
    /\ kf_entry.state_covariance[2] > 0
    /\ prev_time = 1500
    /\ state_covariance[1] > 0
    /\ state_covariance[2] > 0
    /\ state_covariance[2] < state_covariance[1]

\* the raw sample of a device at rest in the 2 g build
RestSample == <<0, 0, 16384, 0, 0, 0>>

\* C26: once getRefinedValues has run, each refined acceleration is
\* (raw - offset_correction) / accel_1g_value and each refined rate is
\* (raw - offset_correction) / gyro_1dps_value degrees per second (that is
\* (raw - offset_correction) * pi / (180 * gyro_1dps_value) rad/s), up to the
\* rounding of the division; with zero offset correction and 16384 LSB/g
\* the raw sample (0,0,16384,0,0,0) refines to (0,0,1,0,0,0), and a call of
\* simplifiedKF with that sample from the zero FilterState returns the
\* angles (0,0).
C26_RefineAndEndToEnd ==
    kf_calls > 0
       => /\ \A i \in 1 .. 3 :
                Abs(measurements_funct[i] * accel_1g_value
                       - (raw_values[i] - offset_correction[i]) * Scale)
                   < accel_1g_value
          /\ \A i \in 4 .. 6 :
                Abs(measurements_funct[i] * gyro_1dps_value
                       - (raw_values[i] - offset_correction[i]) * Scale * 10)
                   < gyro_1dps_value
          /\ (accel_1g_value = 16384 /\ offset_correction = Zeros
                 /\ raw_values = RestSample)
                => /\ measurements_funct = <<0, 0, Fix(1), 0, 0, 0>>
                   /\ (/\ kf_pc = "done"
                       /\ kf_entry.state = <<0, 0>>
                       /\ kf_entry.state_covariance = <<0, 0>>
                       /\ kf_entry.rotated_ang_speed_prev = <<0, 0>>
                       /\ kf_entry.prev_time = 0)
                         => kf_ret = <<0, 0>>

\* the fusion step of the example has run to its end on a device in
\* MPU_CORRECT
C26_Witness ==
    /\ kf_pc = "done"
    /\ kf_calls = 1
    /\ accel_1g_value = 16384
    /\ offset_correction = Zeros
    /\ raw_values = RestSample
    /\ kf_entry.mpu_state_global = MPU_CORRECT
    /\ mpu_state_global = MPU_CORRECT
    /\ measurements_funct = <<0, 0, Fix(1), 0, 0, 0>>
    /\ current_time = 1000
    /\ prev_time = 1000
    /\ state_covariance[1] > 0
    /\ state = <<0, 0>>
    /\ kf_ret = <<0, 0>>

(***************************************************************************)
(* Further properties of the register access layer (SpecBus)               *)
(***************************************************************************)
\* C31: a verified writeMpuRegister that returns true leaves
\* mpu_state_global as it was when the call began, whatever failed in its
\* earlier attempts; the call sets MPU_I2C_ERROR only when it returns false
\* after its 6 attempts.
C31_WriteSuccessKeepsState ==
    (op = "write" /\ wr_check /\ wr_pc = "done")
       => /\ wr_ret => mpu_state_global = st_at_call
          /\ mpu_state_global # st_at_call
                => mpu_state_global = MPU_I2C_ERROR

(***************************************************************************)
(* Further properties of calibrate (SpecCal)                               *)
(***************************************************************************)
\* C32: whenever calibrate returns true, every axis has a final range with
\* 0 <= high offset - low offset <= CALIBRATION_MIN_ERROR (1), and the
\* passes of the range search and of the second loop together did not
\* exceed CALIBRATION_MAX_ITERATIONS (100).
C32_SuccessMeansNarrowed ==
    (cal_pc = "done" /\ cal_ret)
       => /\ \A i \in Axes :
                /\ 0 <= high_offsets[i] - low_offsets[i]
                /\ high_offsets[i] - low_offsets[i] <= CALIBRATION_MIN_ERROR
          /\ br_iters + bi_iters <= CALIBRATION_MAX_ITERATIONS

\* C33: throughout calibrate the low and the high offset of every axis are
\* int16_t values with low offset <= high offset, and a step of the range
\* search moves an offset by exactly CALIBRATION_OFFSET_ADJUSTMENT (1000),
\* without wrapping, up to the last pass the iteration cap allows.
C33_OffsetsInRange ==
    [][(cal_pc' # "idle" /\ cal_pc # "idle")
          => \A i \in Axes :
                /\ -32768 <= low_offsets'[i]
                /\ low_offsets'[i] <= high_offsets'[i]
                /\ high_offsets'[i] <= 32767
                /\ cal_pc = "br_avglow"
                      => low_offsets'[i] \in
                            {low_offsets[i],
                             low_offsets[i] - CALIBRATION_OFFSET_ADJUSTMENT}
                /\ cal_pc = "br_avghigh"
                      => high_offsets'[i] \in
                            {high_offsets[i],
                             high_offsets[i] + CALIBRATION_OFFSET_ADJUSTMENT}
      ]_vars

(***************************************************************************)
(* Further properties of the initialization sequence (Spec)                *)
(***************************************************************************)
\* C34: the record in the EEPROM changes only in the step of
\* performCalibration that follows a successful calibrate and in which
\* getTemperature and setOffsets have left no MPU_I2C_ERROR; that step
\* leaves the offsets of the record equal to the offsets written to the
\* device; a performCalibration that returns false leaves every byte of the
\* EEPROM as it was.
C34_SaveOnlyAfterSuccess ==
    [][~PowerOn
          => /\ eeprom' # eeprom
                   => /\ pc = "pc_apply"
                      /\ mpu_state_global' # MPU_I2C_ERROR
             /\ (pc = "pc_apply" /\ mpu_state_global' # MPU_I2C_ERROR)
                   => /\ mpu_offsets' = new_offsets
                      /\ SignatureAccepted(eeprom'[MPU_EEPROM_OFFSET_ADDRESS])
                      /\ LoadedOffsets(eeprom') = mpu_offsets'
             /\ (pc \in {"pc_cal", "pc_apply"} /\ pc' = "idle" /\ ~op_ret')
                   => eeprom' = eeprom
      ]_vars

\* performCalibration has returned true with offsets other than zero in the
\* device and in the record, over an older record
C34_Witness ==
    /\ last_op = "performCalibration"
    /\ pc = "idle"
    /\ op_ret
    /\ mpu_state_global = MPU_NOT_INITIALIZED
    /\ mpu_offsets # Zeros
    /\ LoadedOffsets(eeprom) = mpu_offsets
    /\ SignatureAccepted(eeprom[MPU_EEPROM_OFFSET_ADDRESS])
(***************************************************************************)
(* Properties of getOffsetCorrection (SpecCorrection)                      *)
(***************************************************************************)
\* C35: a getOffsetCorrection that meets no bus failure leaves in
\* offset_correction, for each of the 6 axes, the average of
\* CALIBRATION_CORRECTION_AVERAGES (1000) samples of the axis at the offsets
\* in the device, less the target of the axis.
C35_ResidualCorrection ==
    [][(goc_pc = "ready" /\ goc_pc' = "done"
        /\ mpu_state_global' # MPU_I2C_ERROR)
          => /\ goc_n' = CALIBRATION_CORRECTION_AVERAGES
             /\ \A i \in Axes :
                   offset_correction'[i] = AverageAt(i, mpu_offsets[i])
      ]_vars
(***************************************************************************)
(* Properties of initializeMeasurements (SpecSession)                      *)
(***************************************************************************)
\* C36: when initializeMeasurements returns, after any number of calls of
\* simplifiedKF, state and rotated_ang_speed_prev are <<0, 0>> and
\* prev_time is the time_buffer the latest data-ready interrupt wrote.
C36_SessionReset ==
    [][(im_calls' = im_calls + 1)
          => /\ state' = <<0, 0>>
             /\ rotated_ang_speed_prev' = <<0, 0>>
             /\ prev_time' = time_buffer'
      ]_vars
(***************************************************************************)
(* Further properties of updateMpuRegister (SpecBus)                       *)
(***************************************************************************)
\* C37: once the initial read of updateMpuRegister has succeeded, the byte
\* handed to writeMpuRegister for the same register has, bit by bit, the
\* bit of values_funct where mask_funct has a 1 and the bit of the byte
\* just read where mask_funct has a 0.
C37_MaskedMerge ==
    (op = "update" /\ up_pc \in {"write", "done"} /\ up_read_ok)
       => /\ wr_addr = rd_addr
          /\ wr_val \in 0 .. 255
          /\ wr_val = up_current
          /\ \A n \in 0 .. 7 :
                Bit(wr_val, n) = IF Bit(up_mask, n) = 1
                                    THEN Bit(up_values, n)
                                    ELSE Bit(up_read, n)

\* an update has returned true after writing a byte that is neither the
\* requested value nor the byte read, under a mask with bits of both kinds
C37_Witness ==
    /\ op = "update"
    /\ up_pc = "done"
    /\ up_ret
    /\ up_read_ok
    /\ up_mask = 104
    /\ wr_val # up_values
    /\ wr_val # up_read
    /\ wr_val # BitAnd8(up_values, up_mask)
    /\ dev[wr_addr] = wr_val
(***************************************************************************)
(* Properties of loop() and the interrupt routine (SpecLoop)               *)
(***************************************************************************)
\* C38: overflow, once the interrupt routine has set it, goes back to false
\* only after the if (overflow) of loop() has read it as true.
C38_OverflowObserved ==
    [][(overflow /\ ~overflow') => lp_seen]_vars

\* C39: the sample simplifiedKF reads is the one announced by the interrupt
\* that wrote the time stamp passed to it, and when loop() clears
\* mpu_data_ready after the step while an interrupt has arrived since the
\* time stamp was copied, overflow is set.
C39_SameSample ==
    [][/\ (lp_pc = "kf" /\ lp_pc' = "kfret") => lp_read' = lp_stamp
       /\ (lp_pc = "reset" /\ lp_pc' = "ovtest" /\ signals > lp_stamp)
             => overflow
      ]_vars

=============================================================================
